---- MODULE Spec2Model ----
(***************************************************************************)
(* A model of the segmentation and retrieval core of smart-doc:           *)
(*   - the chunkers (src/core/chunkers): SemanticChunker, StructureChunker *)
(*   - the retrievers (src/core/retrievers): HybridRetriever,              *)
(*     CrossRefRetriever                                                   *)
(*   - DocumentService (src/services), MarkdownParser (src/core/parsers)   *)
(*     and TableExtractor (src/core/extractors)                            *)
(* Strings are sequences of one-character strings, so that len(), split(), *)
(* strip() and join() are computed as Python computes them.                *)
(***************************************************************************)
EXTENDS Integers, Sequences, FiniteSets, TLC

VARIABLES
    phase,          \* "input" while the document is assembled, then the chunker that ran
    steps,          \* how many steps the document was assembled in
    sections,       \* ParsedDocument.sections
    chunker,        \* the chunker that ran: its chunk_size, chunk_overlap, include_heading_in_chunk
    chunks,         \* the list returned by chunk()
    overlap_log,    \* history: one entry per overlap flush of SemanticChunker._chunk_section
    hphase,         \* HybridRetriever: "idle", then "fused", "retrieved" or "failed"
    dense_results,  \* the dense candidate list
    sparse_results, \* the sparse candidate list
    fused,          \* what _reciprocal_rank_fusion or retrieve returned
    h_top_k,        \* the top_k retrieve was called with, 0 before the call
    xphase,         \* CrossRefRetriever: "new", "ready", "expanding", then "returned" or "failed"
    index,          \* the payloads of the vector index, point by point
    max_cross_refs, \* CrossRefRetriever.max_cross_refs
    primary_results, \* retrieve's primary_results
    cross_refs,     \* _find_cross_references' cross_refs, as far as the loop has come
    next_hit,       \* the primary result the loop of _find_cross_references is at
    searches,       \* history: one entry per secondary search of _search_related
    x_results,      \* what CrossRefRetriever.retrieve returned
    pipelines,      \* DocumentService.process_document, one call per document: where it is
    storage,        \* FileStorage: the documents a file is saved for
    points,         \* the collection of the vector index: point id -> payload
    upsert_log,     \* history: one entry per VectorStore.upsert that went through
    mphase,         \* MarkdownParser: "text" while the file is written, then "chunked"
    md_blocks,      \* how many blocks the Markdown text was written in
    md_text,        \* the Markdown text
    md_sections,    \* the sections of the ParsedDocument parse_bytes returned
    md_chunker,     \* the StructureChunker that chunked it
    md_chunks,      \* the chunks it returned
    ephase,         \* TableExtractor: "statement" while the text is written, then "extracted"
    e_columns,      \* how many column declarations the statement has
    e_text,         \* the text given to extract_from_text
    e_metadata,     \* the ExtractedMetadata it returned: table_names, column_definitions
    aphase,         \* APIExtractor: "text" while the text is written, then "extracted"
    a_fragments,    \* how many fragments the text was written in
    a_text,         \* the text given to extract_from_text
    a_matches,      \* history: the groups of the matches extract_from_text went through
    a_metadata,     \* the ExtractedMetadata it returned: api_endpoints, http_methods
    nphase,         \* EntityExtractor: "text" while the text is written, then "extracted"
    n_pieces,       \* how many pieces the text was written in
    n_text,         \* the text given to extract_from_text
    n_names,        \* ExtractedMetadata.entity_names, as it returned it
    created_chunks, \* the chunks Chunk.create has returned, in the order of the calls
    sheet_phase,    \* ExcelParser: "sheet" while the sheet is filled, then "parsed"
    sheet_rows,     \* list(ws.iter_rows(values_only=True)) of the sheet
    sheet_sections, \* the sections _parse_sheet returned
    group_phase,    \* "input" while the group is assembled, then "chunked"
    group_sections, \* the sections of one group of _group_sections_by_hierarchy
    group_chunker,  \* the StructureChunker that chunked the group
    group_chunks    \* what _chunk_section_group returned

chunkVars == <<phase, steps, sections, chunker, chunks, overlap_log>>

hybridVars == <<hphase, dense_results, sparse_results, fused, h_top_k>>

crossRefVars == <<xphase, index, max_cross_refs, primary_results, cross_refs,
                  next_hit, searches, x_results>>

ingestVars == <<pipelines, storage, points, upsert_log>>

markdownVars == <<mphase, md_blocks, md_text, md_sections, md_chunker, md_chunks>>

extractVars == <<ephase, e_columns, e_text, e_metadata>>

apiVars == <<aphase, a_fragments, a_text, a_matches, a_metadata>>

entityVars == <<nphase, n_pieces, n_text, n_names>>

createVars == <<created_chunks>>

sheetVars == <<sheet_phase, sheet_rows, sheet_sections>>

groupVars == <<group_phase, group_sections, group_chunker, group_chunks>>

vars == <<chunkVars, hybridVars, crossRefVars, ingestVars, markdownVars, extractVars,
         apiVars,
         entityVars,
         createVars,
         sheetVars,
         groupVars>>

----------------------------------------------------------------------------
(* Bounds of the model *)

\* A document is assembled in at most this many steps: a step starts a
\* section or appends an atom to the last one.
MaxDocSize == 5

\* What section contents are made of: a letter, a three-letter word (one
\* token), a sentence terminator and a line break (whitespace).
Atoms == {<<"a">>, <<"b", "c", "d">>, <<".">>, <<"\n">>}

\* The token budgets chunkers are configured with.
ChunkSizes == {1}
ChunkOverlaps == {0, 1}

\* The vector index CrossRefRetriever searches holds at most this many points.
NumPoints == 4

\* The chunks HybridRetriever's candidate lists are drawn from.
NumChunks == 3

\* The documents DocumentService.process_document is called for, and the
\* most chunks the chunker makes of one.
NumDocs == 2
MaxChunks == 2

\* The most blocks a Markdown text is written in.
MaxBlocks == 5

\* The top_k values retrieve() is called with.
TopKs == {0, 1, 2}

\* The max_cross_refs values a CrossRefRetriever is constructed with.
MaxCrossRefs == {1, 2}

----------------------------------------------------------------------------
(* Python string primitives *)

Whitespace == {" ", "\n", "\t"}

RECURSIVE Join(_, _)
\* sep.join(parts)
Join(sep, parts) ==
    IF parts = <<>> THEN <<>>
    ELSE IF Len(parts) = 1 THEN parts[1]
    ELSE parts[1] \o sep \o Join(sep, Tail(parts))

RECURSIVE LStrip(_)
LStrip(s) ==
    IF s # <<>> /\ Head(s) \in Whitespace THEN LStrip(Tail(s)) ELSE s

RECURSIVE RStrip(_)
RStrip(s) ==
    IF s # <<>> /\ s[Len(s)] \in Whitespace THEN RStrip(SubSeq(s, 1, Len(s) - 1)) ELSE s

\* str.strip()
Strip(s) == RStrip(LStrip(s))

RECURSIVE SplitOn(_, _, _, _)
\* str.split(c) for a one-character separator: every separator ends a field,
\* empty fields are kept.
SplitOn(c, s, cur, out) ==
    IF s = <<>> THEN Append(out, cur)
    ELSE IF Head(s) = c THEN SplitOn(c, Tail(s), <<>>, Append(out, cur))
    ELSE SplitOn(c, Tail(s), Append(cur, Head(s)), out)

\* content.split("\n")
SplitLines(s) == SplitOn("\n", s, <<>>, <<>>)

RECURSIVE SplitWords(_, _, _)
\* str.split(): fields are maximal runs of non-whitespace, none empty.
SplitWords(s, cur, out) ==
    IF s = <<>> THEN (IF cur = <<>> THEN out ELSE Append(out, cur))
    ELSE IF Head(s) \in Whitespace
         THEN SplitWords(Tail(s), <<>>, IF cur = <<>> THEN out ELSE Append(out, cur))
         ELSE SplitWords(Tail(s), Append(cur, Head(s)), out)

RECURSIVE SumSeq(_)
SumSeq(ns) == IF ns = <<>> THEN 0 ELSE Head(ns) + SumSeq(Tail(ns))

----------------------------------------------------------------------------
(* Content types, src/core/parsers/base.py *)

TEXT == "text"
TABLE == "table"
CODE_BLOCK == "code_block"
LIST == "list"
HEADING == "heading"
ContentType == {TEXT, TABLE, CODE_BLOCK, LIST, HEADING}

\* ParsedSection(content, content_type, section_hierarchy)
ParsedSection(content, content_type, hierarchy) ==
    [content |-> content, content_type |-> content_type, section_hierarchy |-> hierarchy]

\* Chunk.create(document_id, content, content_type, section_hierarchy)
ChunkCreate(content, content_type, hierarchy) ==
    [content |-> content, content_type |-> content_type, section_hierarchy |-> hierarchy]

\* BaseChunker._count_tokens
CountTokens(text) == Len(text) \div 3

----------------------------------------------------------------------------
(* SemanticChunker, src/core/chunkers/semantic_chunker.py *)

\* SemanticChunker.SENTENCE_ENDINGS: a set of strings; the last one is the
\* two-character string "\n\n".
SENTENCE_ENDINGS ==
    {<<"U+3002">>, <<"U+FF01">>, <<"U+FF1F">>, <<".">>, <<"!">>, <<"?">>, <<"\n", "\n">>}

\* One pass of the `sentence = "".join(current).strip(); if sentence: append`.
KeepSentence(sentences, current) ==
    IF Strip(current) # <<>> THEN Append(sentences, Strip(current)) ELSE sentences

RECURSIVE SplitSentencesLoop(_, _, _)
SplitSentencesLoop(text, current, sentences) ==
    IF text = <<>>
    THEN (IF current # <<>> THEN KeepSentence(sentences, current) ELSE sentences)
    ELSE IF <<Head(text)>> \in SENTENCE_ENDINGS
         THEN SplitSentencesLoop(Tail(text), <<>>,
                                 KeepSentence(sentences, Append(current, Head(text))))
         ELSE SplitSentencesLoop(Tail(text), Append(current, Head(text)), sentences)

\* SemanticChunker._split_sentences
SplitSentences(text) == SplitSentencesLoop(text, <<>>, <<>>)

\* The words of the text joined into one piece, whatever their length.
SplitLongTextInOnePiece(self, text) == <<Join(<<" ">>, SplitWords(text, <<>>, <<>>))>>

RECURSIVE SplitLongTextLoop(_, _, _, _, _)
SplitLongTextLoop(self, words, current_words, current_length, out) ==
    IF words = <<>>
    THEN (IF current_words # <<>> THEN Append(out, Join(<<" ">>, current_words)) ELSE out)
    ELSE LET word == Head(words)
             word_tokens == CountTokens(word)
         IN IF current_length + word_tokens > self.chunk_size
            THEN SplitLongTextLoop(self, Tail(words), <<word>>, word_tokens,
                     IF current_words # <<>>
                     THEN Append(out, Join(<<" ">>, current_words)) ELSE out)
            ELSE SplitLongTextLoop(self, Tail(words), Append(current_words, word),
                                   current_length + word_tokens, out)

\* SemanticChunker._split_long_text
SplitLongText(self, text) == SplitLongTextLoop(self, SplitWords(text, <<>>, <<>>), <<>>, 0, <<>>)

RECURSIVE OverlapLoop(_, _, _, _, _)
\* The loop of _get_overlap_sentences: i walks the sentences backwards.
OverlapLoop(self, sentences, i, overlap_tokens, overlap_sentences) ==
    IF i = 0 THEN overlap_sentences
    ELSE LET sentence_tokens == CountTokens(sentences[i])
         IN IF overlap_tokens + sentence_tokens <= self.chunk_overlap
            THEN OverlapLoop(self, sentences, i - 1, overlap_tokens + sentence_tokens,
                             <<sentences[i]>> \o overlap_sentences)
            ELSE overlap_sentences

\* _get_overlap_sentences measuring the overlap against chunk_size.
GetOverlapWithinChunkSize(self, sentences) ==
    IF sentences = <<>> THEN <<>>
    ELSE OverlapLoop([self EXCEPT !.chunk_overlap = self.chunk_size],
                     sentences, Len(sentences), 0, <<>>)

\* SemanticChunker._get_overlap_sentences
GetOverlapSentences(self, sentences) ==
    IF sentences = <<>> THEN <<>> ELSE OverlapLoop(self, sentences, Len(sentences), 0, <<>>)

\* The tokens of a sentence list, sum(self._count_tokens(s) for s in ...)
SentenceTokens(sentences) ==
    SumSeq([i \in 1..Len(sentences) |-> CountTokens(sentences[i])])

\* The chunks Chunk.create makes of a list of texts, all of one section.
ChunksOf(texts, content_type, hierarchy) ==
    [i \in 1..Len(texts) |-> ChunkCreate(texts[i], content_type, hierarchy)]

RECURSIVE SemanticLoop(_, _, _, _, _, _, _, _)
\* The `for sentence in sentences` loop of _chunk_section and the final
\* flush.  Returns the chunks and, as history, every overlap flush: the
\* index of the flushed chunk, its sentences and the sentences carried over.
SemanticLoop(self, sentences, current, current_length, out, log, content_type, hierarchy) ==
    IF sentences = <<>>
    THEN [chunks |-> IF current # <<>>
                     THEN Append(out, ChunkCreate(Join(<<" ">>, current), content_type, hierarchy))
                     ELSE out,
          log |-> log]
    ELSE LET sentence == Head(sentences)
             sentence_tokens == CountTokens(sentence)
             flushed == IF current # <<>>
                        THEN Append(out, ChunkCreate(Join(<<" ">>, current), content_type, hierarchy))
                        ELSE out
         IN IF sentence_tokens > self.chunk_size
            THEN SemanticLoop(self, Tail(sentences), <<>>, 0,
                              flushed \o ChunksOf(SplitLongText(self, sentence), content_type, hierarchy),
                              log, content_type, hierarchy)
            ELSE IF current_length + sentence_tokens > self.chunk_size /\ current # <<>>
            THEN LET overlap_sentences == GetOverlapSentences(self, current)
                 IN SemanticLoop(self, Tail(sentences), Append(overlap_sentences, sentence),
                                 SentenceTokens(overlap_sentences) + sentence_tokens,
                                 flushed,
                                 Append(log, [index |-> Len(flushed),
                                              flushed |-> current,
                                              carried |-> overlap_sentences]),
                                 content_type, hierarchy)
            ELSE SemanticLoop(self, Tail(sentences), Append(current, sentence),
                              current_length + sentence_tokens, out, log,
                              content_type, hierarchy)

\* SemanticChunker._chunk_section
SemanticChunkSection(self, content, content_type, hierarchy) ==
    IF CountTokens(content) <= self.chunk_size
    THEN [chunks |-> <<ChunkCreate(content, content_type, hierarchy)>>, log |-> <<>>]
    ELSE IF content_type \in {CODE_BLOCK, TABLE}
    THEN [chunks |-> <<ChunkCreate(content, content_type, hierarchy)>>, log |-> <<>>]
    ELSE SemanticLoop(self, SplitSentences(content), <<>>, 0, <<>>, <<>>, content_type, hierarchy)

RECURSIVE SemanticChunkLoop(_, _, _, _)
SemanticChunkLoop(self, secs, out, log) ==
    IF secs = <<>> THEN [chunks |-> out, log |-> log]
    ELSE LET r == SemanticChunkSection(self, Head(secs).content, Head(secs).content_type,
                                       Head(secs).section_hierarchy)
         IN SemanticChunkLoop(self, Tail(secs), out \o r.chunks,
                              log \o [i \in 1..Len(r.log) |->
                                        [r.log[i] EXCEPT !.index = @ + Len(out)]])

\* SemanticChunker.chunk
SemanticChunkerChunk(self, secs) == SemanticChunkLoop(self, secs, <<>>, <<>>)

----------------------------------------------------------------------------
(* StructureChunker, src/core/chunkers/structure_chunker.py *)

RECURSIVE GroupLoop(_, _, _, _)
\* The loop of _group_sections_by_hierarchy and its final append.  A group
\* is <<hierarchy, sections>>.
GroupLoop(secs, groups, current_hierarchy, current_sections) ==
    IF secs = <<>>
    THEN (IF current_sections # <<>>
          THEN Append(groups, <<current_hierarchy, current_sections>>) ELSE groups)
    ELSE LET section == Head(secs)
             closed == IF current_sections # <<>>
                       THEN Append(groups, <<current_hierarchy, current_sections>>)
                       ELSE groups
         IN IF section.content_type = HEADING
            THEN GroupLoop(Tail(secs), closed, section.section_hierarchy, <<>>)
            ELSE IF section.section_hierarchy # current_hierarchy
            THEN GroupLoop(Tail(secs), closed, section.section_hierarchy, <<section>>)
            ELSE GroupLoop(Tail(secs), groups, current_hierarchy,
                           Append(current_sections, section))

\* _group_sections_by_hierarchy without its `# Don't forget last group`.
GroupSectionsWithoutLast(secs) ==
    LET groups == GroupLoop(secs, <<>>, <<>>, <<>>)
    IN IF secs # <<>> /\ secs[Len(secs)].content_type # HEADING
       THEN SubSeq(groups, 1, Len(groups) - 1)
       ELSE groups

\* StructureChunker._group_sections_by_hierarchy
GroupSectionsByHierarchy(secs) == GroupLoop(secs, <<>>, <<>>, <<>>)

\* The priority table of _get_dominant_content_type_from_list
TypePriority(t) ==
    CASE t = CODE_BLOCK -> 4
      [] t = TABLE -> 3
      [] t = LIST -> 2
      [] t = TEXT -> 1
      [] OTHER -> 0

\* StructureChunker._get_dominant_content_type_from_list: max() keeps the
\* first element of greatest priority.
DominantContentType(types) ==
    IF types = <<>> THEN TEXT
    ELSE LET best == CHOOSE i \in 1..Len(types) :
                        /\ \A j \in 1..Len(types) : TypePriority(types[j]) <= TypePriority(types[i])
                        /\ \A j \in 1..(i - 1) : TypePriority(types[j]) < TypePriority(types[i])
         IN types[best]

\* `" > ".join(hierarchy) + "\n\n"`
HeadingPrefix(hierarchy) == Join(<<" ", ">", " ">>, hierarchy) \o <<"\n", "\n">>

\* `if self.include_heading_in_chunk and hierarchy: chunk_content = prefix + chunk_content`
WithHeading(self, hierarchy, chunk_content) ==
    IF self.include_heading_in_chunk /\ hierarchy # <<>>
    THEN HeadingPrefix(hierarchy) \o chunk_content
    ELSE chunk_content

RECURSIVE SplitLinesLoop(_, _, _, _, _, _, _)
\* The `for line in lines` loop of _split_large_content and its last chunk.
SplitLinesLoop(self, lines, current_lines, current_tokens, out, content_type, hierarchy) ==
    IF lines = <<>>
    THEN (IF current_lines # <<>>
          THEN Append(out, ChunkCreate(WithHeading(self, hierarchy, Join(<<"\n">>, current_lines)),
                                       content_type, hierarchy))
          ELSE out)
    ELSE LET line == Head(lines)
             line_tokens == CountTokens(line)
         IN IF current_tokens + line_tokens > self.chunk_size /\ current_lines # <<>>
            THEN SplitLinesLoop(self, Tail(lines), <<line>>, line_tokens,
                     Append(out, ChunkCreate(WithHeading(self, hierarchy, Join(<<"\n">>, current_lines)),
                                             content_type, hierarchy)),
                     content_type, hierarchy)
            ELSE SplitLinesLoop(self, Tail(lines), Append(current_lines, line),
                                current_tokens + line_tokens, out, content_type, hierarchy)

\* StructureChunker._split_large_content
SplitLargeContent(self, content, content_type, hierarchy) ==
    IF content_type \in {CODE_BLOCK, TABLE}
    THEN <<ChunkCreate(WithHeading(self, hierarchy, content), content_type, hierarchy)>>
    ELSE SplitLinesLoop(self, SplitLines(content), <<>>, 0, <<>>, content_type, hierarchy)

\* The chunk made of the accumulated parts: `"\n\n".join(current_content)`
\* with the heading prefix and the dominant content type.
PartsChunk(self, current_content, current_types, hierarchy) ==
    ChunkCreate(WithHeading(self, hierarchy, Join(<<"\n", "\n">>, current_content)),
                DominantContentType(current_types), hierarchy)

RECURSIVE PartsLoop(_, _, _, _, _, _, _)
\* The `for content, content_type, metadata in combined_parts` loop of
\* _chunk_section_group and its last chunk.
PartsLoop(self, parts, current_content, current_tokens, current_types, out, hierarchy) ==
    IF parts = <<>>
    THEN (IF current_content # <<>>
          THEN Append(out, PartsChunk(self, current_content, current_types, hierarchy))
          ELSE out)
    ELSE LET part == Head(parts)
             part_tokens == CountTokens(part.content)
             saved == IF current_content # <<>>
                      THEN Append(out, PartsChunk(self, current_content, current_types, hierarchy))
                      ELSE out
         IN IF part_tokens > self.chunk_size
            THEN PartsLoop(self, Tail(parts), <<>>, 0, <<>>,
                           saved \o SplitLargeContent(self, part.content, part.content_type, hierarchy),
                           hierarchy)
            ELSE IF current_tokens + part_tokens > self.chunk_size /\ current_content # <<>>
            THEN PartsLoop(self, Tail(parts), <<part.content>>, part_tokens, <<part.content_type>>,
                           saved, hierarchy)
            ELSE PartsLoop(self, Tail(parts), Append(current_content, part.content),
                           current_tokens + part_tokens,
                           Append(current_types, part.content_type), out, hierarchy)

\* StructureChunker._chunk_section_group
ChunkSectionGroup(self, secs, hierarchy) ==
    LET total_tokens == SumSeq([i \in 1..Len(secs) |-> CountTokens(secs[i].content)])
    IN IF total_tokens <= self.chunk_size
       THEN <<PartsChunk(self, [i \in 1..Len(secs) |-> secs[i].content],
                         [i \in 1..Len(secs) |-> secs[i].content_type], hierarchy)>>
       ELSE PartsLoop(self, secs, <<>>, 0, <<>>, <<>>, hierarchy)

RECURSIVE StructureChunkLoop(_, _, _)
StructureChunkLoop(self, groups, out) ==
    IF groups = <<>> THEN out
    ELSE StructureChunkLoop(self, Tail(groups),
                            out \o ChunkSectionGroup(self, Head(groups)[2], Head(groups)[1]))

\* StructureChunker.chunk
StructureChunkerChunk(self, secs) == StructureChunkLoop(self, GroupSectionsByHierarchy(secs), <<>>)

----------------------------------------------------------------------------
(* The chunking pipeline: a ParsedDocument is assembled, then chunked *)

\* The heading text "T"
HeadingT == <<"T">>

\* The <<content_type, section_hierarchy>> sections are created with: text
\* with and without an enclosing heading, the atomic types and a heading.
SectionKinds ==
    {<<TEXT, <<>>>>, <<TEXT, <<HeadingT>>>>, <<CODE_BLOCK, <<HeadingT>>>>,
     <<TABLE, <<HeadingT>>>>, <<HEADING, <<HeadingT>>>>}

\* No chunker has been constructed yet.
NoChunker == [chunk_size |-> 0, chunk_overlap |-> 0, include_heading_in_chunk |-> FALSE]

\* SemanticChunker.__init__(chunk_size, chunk_overlap)
NewSemanticChunker(size, overlap) ==
    [chunk_size |-> size, chunk_overlap |-> overlap, include_heading_in_chunk |-> FALSE]

\* StructureChunker.__init__(chunk_size, include_heading_in_chunk=...)
NewStructureChunker(size, include_heading) ==
    [chunk_size |-> size, chunk_overlap |-> 0, include_heading_in_chunk |-> include_heading]

ChunkInit ==
    /\ phase = "input"
    /\ steps = 0
    /\ sections = <<>>
    /\ chunker = NoChunker
    /\ chunks = <<>>
    /\ overlap_log = <<>>

\* A parser appends a section to the document.
AddSection ==
    /\ phase = "input"
    /\ steps < MaxDocSize
    /\ steps' = steps + 1
    /\ \E k \in SectionKinds :
          sections' = Append(sections, ParsedSection(<<>>, k[1], k[2]))
    /\ UNCHANGED <<phase, chunker, chunks, overlap_log>>
    /\ UNCHANGED <<hybridVars, crossRefVars, ingestVars, markdownVars, extractVars, apiVars, entityVars, createVars, sheetVars, groupVars>>

\* The content of the last section grows by one atom.
AppendAtom ==
    /\ phase = "input"
    /\ sections # <<>>
    /\ steps < MaxDocSize
    /\ steps' = steps + 1
    /\ \E a \in Atoms :
          sections' = [sections EXCEPT ![Len(sections)].content = @ \o a]
    /\ UNCHANGED <<phase, chunker, chunks, overlap_log>>
    /\ UNCHANGED <<hybridVars, crossRefVars, ingestVars, markdownVars, extractVars, apiVars, entityVars, createVars, sheetVars, groupVars>>

\* SemanticChunker(chunk_size, chunk_overlap).chunk(document, document_id)
SemanticChunk ==
    /\ phase = "input"
    /\ \E size \in ChunkSizes, overlap \in ChunkOverlaps :
          LET self == NewSemanticChunker(size, overlap)
              r == SemanticChunkerChunk(self, sections)
          IN /\ chunker' = self
             /\ chunks' = r.chunks
             /\ overlap_log' = r.log
    /\ phase' = "semantic"
    /\ UNCHANGED <<steps, sections>>
    /\ UNCHANGED <<hybridVars, crossRefVars, ingestVars, markdownVars, extractVars, apiVars, entityVars, createVars, sheetVars, groupVars>>

\* StructureChunker(chunk_size, include_heading_in_chunk).chunk(document, document_id)
StructureChunk ==
    /\ phase = "input"
    /\ \E size \in ChunkSizes, include_heading \in BOOLEAN :
          LET self == NewStructureChunker(size, include_heading)
          IN /\ chunker' = self
             /\ chunks' = StructureChunkerChunk(self, sections)
    /\ phase' = "structure"
    /\ UNCHANGED <<steps, sections, overlap_log>>
    /\ UNCHANGED <<hybridVars, crossRefVars, ingestVars, markdownVars, extractVars, apiVars, entityVars, createVars, sheetVars, groupVars>>

ChunkNext == AddSection \/ AppendAtom \/ SemanticChunk \/ StructureChunk


----------------------------------------------------------------------------
(* What the chunk list is measured by *)

RECURSIVE Concat(_)
Concat(parts) == IF parts = <<>> THEN <<>> ELSE Head(parts) \o Concat(Tail(parts))

IsNotWhitespace(c) == c \notin Whitespace

IsNotEmpty(s) == s # <<>>

\* The characters of a string that are not whitespace, in order.
NonWs(s) == SelectSeq(s, IsNotWhitespace)

DropFirst(s, n) == SubSeq(s, n + 1, Len(s))

\* A chunk's content without the hierarchy-path prefix injected into it.
Body(chunk) ==
    IF chunker.include_heading_in_chunk /\ chunk.section_hierarchy # <<>>
    THEN DropFirst(chunk.content, Len(HeadingPrefix(chunk.section_hierarchy)))
    ELSE chunk.content

Bodies == [i \in 1..Len(chunks) |-> Body(chunks[i])]

IsAtomic(chunk) == chunk.content_type \in {CODE_BLOCK, TABLE}

WithinBudget(chunk) == CountTokens(chunk.content) <= chunker.chunk_size

Contents(secs) == [i \in 1..Len(secs) |-> secs[i].content]

IsNotHeading(section) == section.content_type # HEADING

\* The sentences chunk i was seeded with from the chunk before it.
CarriedInto(i) ==
    IF \E e \in 1..Len(overlap_log) : overlap_log[e].index = i - 1
    THEN overlap_log[CHOOSE e \in 1..Len(overlap_log) : overlap_log[e].index = i - 1].carried
    ELSE <<>>

\* The non-whitespace characters of chunk i that are not repeated overlap.
Fresh(i) == DropFirst(NonWs(chunks[i].content), Len(NonWs(Concat(CarriedInto(i)))))

IsSuffix(short, long) ==
    /\ Len(short) <= Len(long)
    /\ short = SubSeq(long, Len(long) - Len(short) + 1, Len(long))

----------------------------------------------------------------------------
(* Claims about the chunkers, checked under SpecChunk *)

\* C1: every chunk StructureChunker.chunk returns has an estimated token
\* count (len(content) // 3) within chunk_size, unless its content_type is
\* CODE_BLOCK or TABLE, or it is a single line.  Stated for the documents
\* all of whose sections have content.
C1_StructureChunksWithinBudget ==
    (/\ phase = "structure"
     /\ \A i \in 1..Len(sections) : sections[i].content # <<>>) =>
        \A i \in 1..Len(chunks) :
            \/ WithinBudget(chunks[i])
            \/ IsAtomic(chunks[i])
            \/ Len(SelectSeq(SplitLines(Body(chunks[i])), IsNotEmpty)) <= 1

\* C2: every chunk SemanticChunker.chunk returns has an estimated token
\* count within chunk_size, unless its content_type is CODE_BLOCK or TABLE,
\* or it is a single sentence or a single word.
C2_SemanticChunksWithinBudget ==
    phase = "semantic" =>
        \A i \in 1..Len(chunks) :
            \/ WithinBudget(chunks[i])
            \/ IsAtomic(chunks[i])
            \/ Len(SplitSentences(chunks[i].content)) <= 1
            \/ Len(SplitWords(chunks[i].content, <<>>, <<>>)) <= 1

\* C3, as claimed: with either chunker the chunk contents, hierarchy prefix
\* stripped, hold the content of every section exactly once (compared up to
\* the whitespace that separates the pieces).
C3_EverySectionCoveredOnce ==
    phase \in {"semantic", "structure"} =>
        NonWs(Concat(Bodies)) = NonWs(Concat(Contents(sections)))

\* C3, amended: StructureChunker's chunks hold the content of every section
\* that is not a HEADING exactly once and in order; SemanticChunker's chunks
\* hold the content of every section in order, exactly once apart from the
\* overlap sentences repeated at the start of the next chunk.
C3_ContentCoveredUpToOverlap ==
    /\ phase = "structure" =>
          NonWs(Concat(Bodies)) = NonWs(Concat(Contents(SelectSeq(sections, IsNotHeading))))
    /\ phase = "semantic" =>
          Concat([i \in 1..Len(chunks) |-> Fresh(i)]) = NonWs(Concat(Contents(sections)))

\* C3's case: a section was split into chunks with overlap carried over.
C3_Witness ==
    /\ phase = "semantic"
    /\ \E e \in 1..Len(overlap_log) : overlap_log[e].carried # <<>>

\* C4: a document with a section of non-empty content yields at least one
\* chunk, with either chunker.
C4_NonEmptyInputYieldsChunk ==
    (/\ phase \in {"semantic", "structure"}
     /\ \E i \in 1..Len(sections) : sections[i].content # <<>>)
        => chunks # <<>>

----------------------------------------------------------------------------
(* HybridRetriever, src/core/retrievers/hybrid_retriever.py *)

\* HybridRetriever.__init__: rrf_k and the weights, in tenths
rrf_k == 60
dense_weight == 7
sparse_weight == 3

ChunkIds == 1..NumChunks

RECURSIVE Product(_, _)
Product(lo, hi) == IF lo > hi THEN 1 ELSE lo * Product(lo + 1, hi)

\* Fused scores are kept as integers, in units of 1 / (10 * ScoreScale):
\* every rrf_k + rank + 1 of a list of NumChunks entries divides ScoreScale.
ScoreScale == Product(rrf_k + 1, rrf_k + NumChunks)

\* RetrievalResult(chunk_id, document_id, score, metadata, source)
RetrievalResult(chunk_id, document_id, score, metadata, source) ==
    [chunk_id |-> chunk_id, document_id |-> document_id, score |-> score,
     metadata |-> metadata, source |-> source]

\* The reciprocal rank with the rank counted from 1 where the formula wants
\* it from 0: `weight / (self.rrf_k + rank)`.
RrfScoreRankFromOne(weight, rank) == (weight * ScoreScale) \div (rrf_k + rank)

\* `weight / (self.rrf_k + rank + 1)`, rank counted from 0
RrfScore(weight, rank) == (weight * ScoreScale) \div (rrf_k + rank + 1)

\* scores.get(chunk_id, 0)
ScoreGet(scores, chunk_id) == IF chunk_id \in DOMAIN scores THEN scores[chunk_id] ELSE 0

\* `d[key] = value` on a dict
DictSet(d, key, value) == [k \in DOMAIN d \cup {key} |-> IF k = key THEN value ELSE d[k]]

RECURSIVE FusionLoop(_, _, _, _, _)
\* One `for rank, result in enumerate(results)` loop of
\* _reciprocal_rank_fusion.  st holds scores, result_map and the dict's keys
\* in insertion order; overwrite says whether result_map takes a result
\* whose chunk_id it already holds (the dense loop) or not (the sparse loop).
FusionLoop(results, rank, weight, overwrite, st) ==
    IF rank >= Len(results) THEN st
    ELSE LET result == results[rank + 1]
             chunk_id == result.chunk_id
         IN FusionLoop(results, rank + 1, weight, overwrite,
               [scores |-> DictSet(st.scores, chunk_id,
                                   ScoreGet(st.scores, chunk_id) + RrfScore(weight, rank)),
                result_map |-> IF overwrite \/ chunk_id \notin DOMAIN st.result_map
                               THEN DictSet(st.result_map, chunk_id, result)
                               ELSE st.result_map,
                keys |-> IF chunk_id \in DOMAIN st.scores THEN st.keys
                         ELSE Append(st.keys, chunk_id)])

RECURSIVE InsertByScore(_, _, _)
\* key put behind every key of sorted whose score is not lower
InsertByScore(sorted, key, scores) ==
    IF sorted = <<>> THEN <<key>>
    ELSE IF scores[Head(sorted)] >= scores[key]
         THEN <<Head(sorted)>> \o InsertByScore(Tail(sorted), key, scores)
         ELSE <<key>> \o sorted

RECURSIVE SortLoop(_, _, _)
SortLoop(keys, sorted, scores) ==
    IF keys = <<>> THEN sorted
    ELSE SortLoop(Tail(keys), InsertByScore(sorted, Head(keys), scores), scores)

\* The sort without reverse=True: ascending.
SortedByScoreAscending(keys, scores) ==
    LET down == SortLoop(keys, <<>>, scores)
    IN [i \in 1..Len(down) |-> down[Len(down) + 1 - i]]

\* `sorted(scores.keys(), key=lambda x: scores[x], reverse=True)`: stable,
\* keys of equal score keep the dict's insertion order.
SortedByScore(keys, scores) == SortLoop(keys, <<>>, scores)

\* HybridRetriever._reciprocal_rank_fusion
ReciprocalRankFusion(dense, sparse) ==
    LET empty == [scores |-> <<>>, result_map |-> <<>>, keys |-> <<>>]
        st == FusionLoop(sparse, 0, sparse_weight, FALSE,
                         FusionLoop(dense, 0, dense_weight, TRUE, empty))
        sorted_ids == SortedByScore(st.keys, st.scores)
    IN [i \in 1..Len(sorted_ids) |->
          LET result == st.result_map[sorted_ids[i]]
          IN RetrievalResult(result.chunk_id, result.document_id,
                             st.scores[sorted_ids[i]], result.metadata, "hybrid")]

\* The ranked lists of at most limit distinct points out of ids.
RankedIds(ids, limit) ==
    {ranked \in UNION {[1..n -> ids] : n \in 0..limit} :
        \A i, j \in 1..Len(ranked) : i # j => ranked[i] # ranked[j]}

\* The similarity score the index gives the hit at a rank (from 1), in
\* hundredths: hits come in descending order of score.
SimilarityAt(rank) == 100 - 25 * (rank - 1)

\* The document a point of the hybrid retriever's index belongs to.
DocumentOf(chunk_id) == "doc"

\* The results made of the hits of a search, as _dense_retrieve makes them.
HitsToResults(ranked, source) ==
    [i \in 1..Len(ranked) |->
        RetrievalResult(ranked[i], DocumentOf(ranked[i]), SimilarityAt(i), <<>>, source)]

\* HybridRetriever._sparse_retrieve: `return []`
SparseRetrieve == <<>>

\* `combined[:top_k + 1]`: one result more than asked for.
TakeOneMore(list, n) == SubSeq(list, 1, IF n + 1 < Len(list) THEN n + 1 ELSE Len(list))

\* `combined[:top_k]`
Take(list, n) == SubSeq(list, 1, IF n < Len(list) THEN n ELSE Len(list))

HybridInit ==
    /\ hphase = "idle"
    /\ dense_results = <<>>
    /\ sparse_results = <<>>
    /\ fused = <<>>
    /\ h_top_k = 0

\* _reciprocal_rank_fusion(dense_results, sparse_results) on two ranked lists
Fuse ==
    /\ hphase = "idle"
    /\ \E dense \in RankedIds(ChunkIds, NumChunks), sparse \in RankedIds(ChunkIds, NumChunks) :
          /\ dense_results' = HitsToResults(dense, "dense")
          /\ sparse_results' = HitsToResults(sparse, "sparse")
    /\ fused' = ReciprocalRankFusion(dense_results', sparse_results')
    /\ hphase' = "fused"
    /\ UNCHANGED h_top_k
    /\ UNCHANGED <<chunkVars, crossRefVars, ingestVars, markdownVars, extractVars, apiVars, entityVars, createVars, sheetVars, groupVars>>

\* HybridRetriever.retrieve(query, top_k, filters): the index answers the
\* dense search with at most top_k * 2 hits.
HybridRetrieve ==
    /\ hphase = "idle"
    /\ \E top_k \in TopKs :
          \E dense \in RankedIds(ChunkIds, top_k * 2) :
             /\ dense_results' = HitsToResults(dense, "dense")
             /\ sparse_results' = SparseRetrieve
             /\ fused' = Take(ReciprocalRankFusion(dense_results', sparse_results'), top_k)
             /\ h_top_k' = top_k
    /\ hphase' = "retrieved"
    /\ UNCHANGED <<chunkVars, crossRefVars, ingestVars, markdownVars, extractVars, apiVars, entityVars, createVars, sheetVars, groupVars>>

\* The embedding call or the index search of _dense_retrieve raises: nothing
\* in retrieve catches it.
HybridRetrieveFails ==
    /\ hphase = "idle"
    /\ hphase' = "failed"
    /\ UNCHANGED <<dense_results, sparse_results, fused, h_top_k>>
    /\ UNCHANGED <<chunkVars, crossRefVars, ingestVars, markdownVars, extractVars, apiVars, entityVars, createVars, sheetVars, groupVars>>

HybridNext == Fuse \/ HybridRetrieve \/ HybridRetrieveFails

----------------------------------------------------------------------------
(* CrossRefRetriever, src/core/retrievers/cross_ref_retriever.py *)

\* Chunk.to_payload as DocumentService stores it, less the content: every
\* payload has a document_id and a doc_type, and what else the chunk's
\* metadata holds.
Payload(document_id, doc_type, entity_names, table_names) ==
    [document_id |-> document_id, doc_type |-> doc_type,
     entity_names |-> entity_names, table_names |-> table_names]

\* The payloads a point of the index can have: of two documents, of the two
\* doc_types that have cross-references, with and without names, and of a
\* third doc_type.
PayloadKinds ==
    << Payload("doc_a", "api_spec", <<"Order">>, <<"orders">>),
       Payload("doc_a", "api_spec", <<>>, <<>>),
       Payload("doc_a", "table_schema", <<"Order">>, <<"orders">>),
       Payload("doc_a", "table_schema", <<>>, <<>>),
       Payload("doc_a", "general", <<>>, <<>>),
       Payload("doc_b", "api_spec", <<"Order">>, <<"orders">>),
       Payload("doc_b", "api_spec", <<>>, <<>>),
       Payload("doc_b", "table_schema", <<"Order">>, <<"orders">>),
       Payload("doc_b", "table_schema", <<>>, <<>>),
       Payload("doc_b", "general", <<>>, <<>>) >>

\* VectorStore.upsert: `payload={**payloads[i], "chunk_id": ids[i]}`
WithChunkId(payload, chunk_id) ==
    [chunk_id |-> chunk_id, document_id |-> payload.document_id,
     doc_type |-> payload.doc_type, entity_names |-> payload.entity_names,
     table_names |-> payload.table_names]

\* The place of a stored payload's kind in PayloadKinds.
KindRank(stored) ==
    CHOOSE k \in 1..Len(PayloadKinds) : WithChunkId(PayloadKinds[k], stored.chunk_id) = stored

\* The points a search with `filters={"doc_types": doc_types}` can return;
\* no doc_types, no condition.
Matching(doc_types) ==
    {point \in 1..Len(index) : doc_types = {} \/ index[point].doc_type \in doc_types}

\* VectorStore.search(query_vector, top_k, filters): the top_k most similar
\* of the matching points, all of them when there are fewer, most similar
\* first.  Which are the most similar is up to the embedding of the query.
VectorStoreSearch(top_k, doc_types) ==
    LET n == IF top_k < Cardinality(Matching(doc_types))
             THEN top_k ELSE Cardinality(Matching(doc_types))
        ranked == {r \in [1..n -> Matching(doc_types)] :
                      \A i, j \in 1..n : i # j => r[i] # r[j]}
    IN {[rank \in 1..n |-> [score |-> SimilarityAt(rank), payload |-> index[r[rank]]]] :
           r \in ranked}

\* The metadata of a result: the payload without chunk_id, document_id and content
MetadataOf(payload) ==
    [doc_type |-> payload.doc_type, entity_names |-> payload.entity_names,
     table_names |-> payload.table_names]

\* CrossRefRetriever._primary_retrieve, of the hits the index returned
PrimaryResults(hits) ==
    [i \in 1..Len(hits) |->
        RetrievalResult(hits[i].payload.chunk_id, hits[i].payload.document_id,
                        hits[i].score, MetadataOf(hits[i].payload), "primary")]

\* `score=r["score"] * 0.8`, in tenths
cross_ref_factor == 8

\* The exclusion test left out of _search_related.
NeverExcluded(document_id, exclude_doc_id) == FALSE

\* `if r["payload"].get("document_id") == exclude_doc_id: continue`
IsExcluded(document_id, exclude_doc_id) == document_id = exclude_doc_id

RECURSIVE SearchRelatedLoop(_, _, _)
\* The `for r in results` loop of _search_related
SearchRelatedLoop(results, exclude_doc_id, found) ==
    IF results = <<>> THEN found
    ELSE LET r == Head(results)
         IN IF IsExcluded(r.payload.document_id, exclude_doc_id)
            THEN SearchRelatedLoop(Tail(results), exclude_doc_id, found)
            ELSE SearchRelatedLoop(Tail(results), exclude_doc_id,
                    Append(found,
                        RetrievalResult(r.payload.chunk_id, r.payload.document_id,
                                        (r.score * cross_ref_factor) \div 10,
                                        MetadataOf(r.payload), "cross_reference")))

\* What _find_cross_references asks _search_related for a primary result:
\* the entities and the doc_type to look for, no doc_type for a result
\* that is neither an api_spec nor a table_schema.
RelatedQuery(result) ==
    IF result.metadata.doc_type = "api_spec"
    THEN [entities |-> result.metadata.entity_names \o result.metadata.table_names,
          doc_type |-> "table_schema"]
    ELSE IF result.metadata.doc_type = "table_schema"
    THEN [entities |-> result.metadata.table_names \o result.metadata.entity_names,
          doc_type |-> "api_spec"]
    ELSE [entities |-> <<>>, doc_type |-> ""]

\* The slice that keeps everything.
TakeAll(list, n) == list

\* `related[: self.max_cross_refs]`
KeepCrossRefs(related, n) == Take(related, n)

\* The concatenation the other way round.
CrossRefsFirst(primary, related) == related \o primary

\* `combined = primary_results + cross_refs`
Combined(primary, related) == primary \o related

\* The loop of retrieve without its `seen` test.
KeepDuplicates(combined, seen, unique_results) == unique_results \o combined

RECURSIVE DeduplicateLoop(_, _, _)
\* The `for result in combined` loop of retrieve
DeduplicateLoop(combined, seen, unique_results) ==
    IF combined = <<>> THEN unique_results
    ELSE LET result == Head(combined)
         IN IF result.chunk_id \notin seen
            THEN DeduplicateLoop(Tail(combined), seen \cup {result.chunk_id},
                                 Append(unique_results, result))
            ELSE DeduplicateLoop(Tail(combined), seen, unique_results)

CrossRefInit ==
    /\ xphase = "new"
    /\ index = <<>>
    /\ max_cross_refs = 0
    /\ primary_results = <<>>
    /\ cross_refs = <<>>
    /\ next_hit = 0
    /\ searches = <<>>
    /\ x_results = <<>>

\* A chunk is stored in the index.  Points are listed in the order of their
\* kinds: which point is which makes no difference to a search.
IndexPoint ==
    /\ xphase = "new"
    /\ Len(index) < NumPoints
    /\ \E k \in 1..Len(PayloadKinds) :
          /\ IF index = <<>> THEN TRUE ELSE KindRank(index[Len(index)]) <= k
          /\ index' = Append(index, WithChunkId(PayloadKinds[k], Len(index) + 1))
    /\ UNCHANGED <<xphase, max_cross_refs, primary_results, cross_refs, next_hit,
                   searches, x_results>>
    /\ UNCHANGED <<chunkVars, hybridVars, ingestVars, markdownVars, extractVars, apiVars, entityVars, createVars, sheetVars, groupVars>>

\* CrossRefRetriever.__init__
NewCrossRefRetriever ==
    /\ xphase = "new"
    /\ \E m \in MaxCrossRefs : max_cross_refs' = m
    /\ xphase' = "ready"
    /\ UNCHANGED <<index, primary_results, cross_refs, next_hit, searches, x_results>>
    /\ UNCHANGED <<chunkVars, hybridVars, ingestVars, markdownVars, extractVars, apiVars, entityVars, createVars, sheetVars, groupVars>>

\* retrieve(query, top_k, filters=None) up to the end of _primary_retrieve
PrimaryRetrieve ==
    /\ xphase = "ready"
    /\ \E top_k \in TopKs :
          \E hits \in VectorStoreSearch(top_k, {}) :
             primary_results' = PrimaryResults(hits)
    /\ next_hit' = 1
    /\ xphase' = "expanding"
    /\ UNCHANGED <<index, max_cross_refs, cross_refs, searches, x_results>>
    /\ UNCHANGED <<chunkVars, hybridVars, ingestVars, markdownVars, extractVars, apiVars, entityVars, createVars, sheetVars, groupVars>>

\* One round of the loop of _find_cross_references for a result that
\* _search_related searches the index for.
FindCrossReferencesSearch ==
    /\ xphase = "expanding"
    /\ next_hit <= Len(primary_results)
    /\ LET result == primary_results[next_hit]
           query == RelatedQuery(result)
       IN /\ query.entities # <<>>
          /\ \E results \in VectorStoreSearch(max_cross_refs + 1, {query.doc_type}) :
                LET related == SearchRelatedLoop(results, result.document_id, <<>>)
                    kept == KeepCrossRefs(related, max_cross_refs)
                IN /\ cross_refs' = cross_refs \o kept
                   /\ searches' = Append(searches,
                          [hit |-> next_hit, doc_type |-> query.doc_type,
                           entities |-> query.entities,
                           results |-> results, related |-> related, kept |-> kept])
    /\ next_hit' = next_hit + 1
    /\ UNCHANGED <<xphase, index, max_cross_refs, primary_results, x_results>>
    /\ UNCHANGED <<chunkVars, hybridVars, ingestVars, markdownVars, extractVars, apiVars, entityVars, createVars, sheetVars, groupVars>>

\* One round of the loop for a result without a search: it is neither an
\* api_spec nor a table_schema, or it names no entities and no tables.
FindCrossReferencesSkip ==
    /\ xphase = "expanding"
    /\ next_hit <= Len(primary_results)
    /\ RelatedQuery(primary_results[next_hit]).entities = <<>>
    /\ next_hit' = next_hit + 1
    /\ UNCHANGED <<xphase, index, max_cross_refs, primary_results, cross_refs,
                   searches, x_results>>
    /\ UNCHANGED <<chunkVars, hybridVars, ingestVars, markdownVars, extractVars, apiVars, entityVars, createVars, sheetVars, groupVars>>

\* The rest of retrieve: combine, deduplicate, return.
CombineAndReturn ==
    /\ xphase = "expanding"
    /\ next_hit > Len(primary_results)
    /\ x_results' = DeduplicateLoop(Combined(primary_results, cross_refs), {}, <<>>)
    /\ xphase' = "returned"
    /\ UNCHANGED <<index, max_cross_refs, primary_results, cross_refs, next_hit, searches>>
    /\ UNCHANGED <<chunkVars, hybridVars, ingestVars, markdownVars, extractVars, apiVars, entityVars, createVars, sheetVars, groupVars>>

\* The embedding of a query or a search of the index raises, in
\* _primary_retrieve or in _search_related: nothing in the class catches it,
\* retrieve returns nothing.
CrossRefSearchFails ==
    /\ \/ xphase = "ready"
       \/ /\ xphase = "expanding"
          /\ next_hit <= Len(primary_results)
          /\ RelatedQuery(primary_results[next_hit]).entities # <<>>
    /\ xphase' = "failed"
    /\ UNCHANGED <<index, max_cross_refs, primary_results, cross_refs, next_hit,
                   searches, x_results>>
    /\ UNCHANGED <<chunkVars, hybridVars, ingestVars, markdownVars, extractVars, apiVars, entityVars, createVars, sheetVars, groupVars>>

CrossRefNext ==
    \/ IndexPoint
    \/ NewCrossRefRetriever
    \/ PrimaryRetrieve
    \/ FindCrossReferencesSearch
    \/ FindCrossReferencesSkip
    \/ CombineAndReturn
    \/ CrossRefSearchFails

----------------------------------------------------------------------------
(* DocumentService, src/services/document_service.py *)

\* The suffixes of the filenames documents come with.
Suffixes == {".md", ".DOCX", ".xls", ".txt"}

\* str.lower() on these suffixes
Lower(suffix) == IF suffix = ".DOCX" THEN ".docx" ELSE suffix

\* The parsers of get_parser_for_file, in its order, by SUPPORTED_EXTENSIONS
Parsers == << {".md", ".markdown"}, {".docx"}, {".xlsx", ".xls"} >>

\* BaseParser.can_parse
CanParse(supported_extensions, suffix) == Lower(suffix) \in supported_extensions

\* get_parser_for_file: the first parser that can parse the file, 0 for None
GetParserForFile(suffix) ==
    IF \E i \in 1..Len(Parsers) : CanParse(Parsers[i], suffix)
    THEN CHOOSE i \in 1..Len(Parsers) :
            /\ CanParse(Parsers[i], suffix)
            /\ \A j \in 1..i - 1 : ~CanParse(Parsers[j], suffix)
    ELSE 0

\* _parse_document that takes the bytes for parsed whatever they are.
ParseAnything(suffix, content) ==
    IF GetParserForFile(suffix) = 0 THEN "no_parser" ELSE "parsed"

\* DocumentService._parse_document: ValueError without a parser; the
\* parser's parse_bytes raises on bytes it cannot decode or open.
ParseDocument(suffix, content) ==
    IF GetParserForFile(suffix) = 0 THEN "no_parser"
    ELSE IF content = "malformed" THEN "parse_error"
    ELSE "parsed"

\* A call of process_document that has not been made.
NoPipeline ==
    [pc |-> "idle", suffix |-> "", content |-> "", chunks |-> <<>>,
     embedded |-> 0, error |-> ""]

\* The chunks the chunker makes of document d: Chunk.create gives each a
\* chunk_id of its own.
ChunksOfDocument(d, n) == [k \in 1..n |-> [chunk_id |-> <<d, k>>, document_id |-> d]]

\* Chunk.to_payload, with the doc_type process_document puts into the metadata
ToPayload(chunk) == Payload(chunk.document_id, "general", <<>>, <<>>)

\* An upsert that writes the first point of the batch only.
UpsertFirstPoint(collection, batch) ==
    [i \in DOMAIN collection \cup {0} |->
        IF i = 0 THEN WithChunkId(ToPayload(batch[1]), batch[1].chunk_id)
        ELSE collection[i]]

\* VectorStore.upsert(ids, vectors, payloads): PointStruct(id=i, ...) for
\* i in range(len(ids)); a point whose id the collection has is replaced.
Upsert(collection, batch) ==
    [i \in DOMAIN collection \cup 0..(Len(batch) - 1) |->
        IF i < Len(batch)
        THEN WithChunkId(ToPayload(batch[i + 1]), batch[i + 1].chunk_id)
        ELSE collection[i]]

\* The chunk ids the collection holds of a document.
StoredChunkIds(collection, d) ==
    {collection[i].chunk_id : i \in {j \in DOMAIN collection : collection[j].document_id = d}}

IngestInit ==
    /\ pipelines = [d \in 1..NumDocs |-> NoPipeline]
    /\ storage = {}
    /\ points = <<>>
    /\ upsert_log = <<>>

\* process_document(content, filename) up to and with file_storage.save_bytes
SaveBytes(d) ==
    /\ pipelines[d].pc = "idle"
    /\ \E suffix \in Suffixes, content \in {"well_formed", "malformed"} :
          pipelines' = [pipelines EXCEPT ![d] =
              [@ EXCEPT !.pc = "saved", !.suffix = suffix, !.content = content]]
    /\ storage' = storage \cup {d}
    /\ UNCHANGED <<points, upsert_log>>
    /\ UNCHANGED <<chunkVars, hybridVars, crossRefVars, markdownVars, extractVars, apiVars, entityVars, createVars, sheetVars, groupVars>>

\* self._parse_document(file_path, content, filename); an exception is
\* logged and raised again.
ParseStep(d) ==
    /\ pipelines[d].pc = "saved"
    /\ LET outcome == ParseDocument(pipelines[d].suffix, pipelines[d].content)
       IN pipelines' = [pipelines EXCEPT ![d] =
              IF outcome = "parsed" THEN [@ EXCEPT !.pc = "parsed"]
              ELSE [@ EXCEPT !.pc = "failed", !.error = outcome]]
    /\ UNCHANGED <<storage, points, upsert_log>>
    /\ UNCHANGED <<chunkVars, hybridVars, crossRefVars, markdownVars, extractVars, apiVars, entityVars, createVars, sheetVars, groupVars>>

\* doc_type, metadata, self.chunker.chunk(parsed, document_id)
ChunkStep(d) ==
    /\ pipelines[d].pc = "parsed"
    /\ \E n \in 0..MaxChunks :
          pipelines' = [pipelines EXCEPT ![d] =
              [@ EXCEPT !.pc = "chunked", !.chunks = ChunksOfDocument(d, n)]]
    /\ UNCHANGED <<storage, points, upsert_log>>
    /\ UNCHANGED <<chunkVars, hybridVars, crossRefVars, markdownVars, extractVars, apiVars, entityVars, createVars, sheetVars, groupVars>>

\* _store_chunks: `if not chunks: return`
StoreNoChunks(d) ==
    /\ pipelines[d].pc = "chunked"
    /\ pipelines[d].chunks = <<>>
    /\ pipelines' = [pipelines EXCEPT ![d] = [@ EXCEPT !.pc = "indexed"]]
    /\ UNCHANGED <<storage, points, upsert_log>>
    /\ UNCHANGED <<chunkVars, hybridVars, crossRefVars, markdownVars, extractVars, apiVars, entityVars, createVars, sheetVars, groupVars>>

\* embed_texts: the embedding of the next chunk's content
EmbedText(d) ==
    /\ pipelines[d].pc = "chunked"
    /\ pipelines[d].embedded < Len(pipelines[d].chunks)
    /\ pipelines' = [pipelines EXCEPT ![d] = [@ EXCEPT !.embedded = @ + 1]]
    /\ UNCHANGED <<storage, points, upsert_log>>
    /\ UNCHANGED <<chunkVars, hybridVars, crossRefVars, markdownVars, extractVars, apiVars, entityVars, createVars, sheetVars, groupVars>>

\* embed_texts: the embedding of the next chunk's content raises
EmbedFails(d) ==
    /\ pipelines[d].pc = "chunked"
    /\ pipelines[d].embedded < Len(pipelines[d].chunks)
    /\ pipelines' = [pipelines EXCEPT ![d] = [@ EXCEPT !.pc = "failed", !.error = "embedding"]]
    /\ UNCHANGED <<storage, points, upsert_log>>
    /\ UNCHANGED <<chunkVars, hybridVars, crossRefVars, markdownVars, extractVars, apiVars, entityVars, createVars, sheetVars, groupVars>>

\* self.vector_store.upsert(ids, embeddings, payloads), and the return of
\* process_document
UpsertStep(d) ==
    /\ pipelines[d].pc = "chunked"
    /\ pipelines[d].chunks # <<>>
    /\ pipelines[d].embedded = Len(pipelines[d].chunks)
    /\ points' = Upsert(points, pipelines[d].chunks)
    /\ upsert_log' = Append(upsert_log,
          [document |-> d, written |-> StoredChunkIds(points', d)])
    /\ pipelines' = [pipelines EXCEPT ![d] = [@ EXCEPT !.pc = "indexed"]]
    /\ UNCHANGED storage
    /\ UNCHANGED <<chunkVars, hybridVars, crossRefVars, markdownVars, extractVars, apiVars, entityVars, createVars, sheetVars, groupVars>>

\* The index refuses the upsert: the client's call raises, nothing is written.
UpsertFails(d) ==
    /\ pipelines[d].pc = "chunked"
    /\ pipelines[d].chunks # <<>>
    /\ pipelines[d].embedded = Len(pipelines[d].chunks)
    /\ pipelines' = [pipelines EXCEPT ![d] = [@ EXCEPT !.pc = "failed", !.error = "upsert"]]
    /\ UNCHANGED <<storage, points, upsert_log>>
    /\ UNCHANGED <<chunkVars, hybridVars, crossRefVars, markdownVars, extractVars, apiVars, entityVars, createVars, sheetVars, groupVars>>

IngestNext ==
    \E d \in 1..NumDocs :
        \/ SaveBytes(d)
        \/ ParseStep(d)
        \/ ChunkStep(d)
        \/ StoreNoChunks(d)
        \/ EmbedText(d)
        \/ EmbedFails(d)
        \/ UpsertStep(d)
        \/ UpsertFails(d)

----------------------------------------------------------------------------
(* MarkdownParser, src/core/parsers/markdown_parser.py, for texts without
   fenced code blocks *)

RECURSIVE LeadingCount(_, _)
\* How many characters of a set a string begins with.
LeadingCount(s, set) ==
    IF s # <<>> /\ Head(s) \in set THEN 1 + LeadingCount(Tail(s), set) ELSE 0

\* HEADING_PATTERN.match(line), `^(#{1,6})\s+(.+)$` on a line: one to six
\* '#', whitespace, and a rest that is not empty; when nothing follows the
\* whitespace the rest is its last character.
HeadingMatch(line) ==
    LET hashes == LeadingCount(line, {"#"})
        after == DropFirst(line, hashes)
        blanks == LeadingCount(after, Whitespace)
        rest == DropFirst(after, blanks)
    IN IF hashes >= 1 /\ hashes <= 6 /\ blanks >= 1 /\ (rest # <<>> \/ blanks >= 2)
       THEN [matched |-> TRUE, level |-> hashes,
             heading_text |-> Strip(IF rest # <<>> THEN rest ELSE <<after[blanks]>>)]
       ELSE [matched |-> FALSE, level |-> 0, heading_text |-> <<>>]

\* TABLE_PATTERN.search(content), `(\|[^\n]+\|\n)+`: a '|', characters of
\* one line, a '|' and the end of the line.
HasTableRow(content) ==
    \E i, j \in 1..Len(content) :
        /\ j >= i + 2
        /\ content[i] = "|"
        /\ content[j] = "|"
        /\ j < Len(content)
        /\ content[j + 1] = "\n"
        /\ \A k \in (i + 1)..(j - 1) : content[k] # "\n"

Digits == {"0", "1", "2", "3", "4", "5", "6", "7", "8", "9"}

\* Where a list marker that begins at place q ends: a '-', '*' or '+', or
\* digits and a '.'.
ListMarkerEnds(content, q) ==
    LET digits == LeadingCount(DropFirst(content, q - 1), Digits)
    IN (IF content[q] \in {"-", "*", "+"} THEN {q} ELSE {})
       \cup (IF digits >= 1 /\ q + digits <= Len(content) /\ content[q + digits] = "."
             THEN {q + digits} ELSE {})

\* LIST_PATTERN.search(content), `^(\s*[-*+]|\s*\d+\.)\s+.+$` with
\* MULTILINE: at the start of a line whitespace, a marker, whitespace and a
\* character that is not a line break.
HasListItem(content) ==
    \E p \in 1..Len(content) :
        /\ p = 1 \/ content[p - 1] = "\n"
        /\ LET q == p + LeadingCount(DropFirst(content, p - 1), Whitespace)
           IN /\ q <= Len(content)
              /\ \E e \in ListMarkerEnds(content, q) :
                    \E k \in 1..(Len(content) - e - 1) :
                        /\ \A x \in (e + 1)..(e + k) : content[x] \in Whitespace
                        /\ content[e + k + 1] # "\n"

\* MarkdownParser._detect_content_type
DetectContentType(content) ==
    IF HasTableRow(content) THEN TABLE
    ELSE IF HasListItem(content) THEN LIST
    ELSE TEXT

\* MarkdownParser._create_sections_from_content, no code block placeholder
\* in the content
CreateSectionsFromContent(content, hierarchy) ==
    IF Strip(content) # <<>>
    THEN <<ParsedSection(content, DetectContentType(content), hierarchy)>>
    ELSE <<>>

RECURSIVE PopToLevel(_, _)
\* `while len(current_hierarchy) >= level: current_hierarchy.pop()`
PopToLevel(current_hierarchy, level) ==
    IF Len(current_hierarchy) >= level /\ current_hierarchy # <<>>
    THEN PopToLevel(SubSeq(current_hierarchy, 1, Len(current_hierarchy) - 1), level)
    ELSE current_hierarchy

\* The hierarchy that keeps the headings above and pushes the new one under them.
AppendHeading(current_hierarchy, level, heading_text) ==
    Append(current_hierarchy, heading_text)

\* The hierarchy after a heading of a level
PushHeading(current_hierarchy, level, heading_text) ==
    Append(PopToLevel(current_hierarchy, level), heading_text)

RECURSIVE ParseLoop(_, _)
\* The `for line in lines` loop of _parse_content.  current_heading is <<>>
\* for None and for the empty string, which the loop does not tell apart.
ParseLoop(lines, st) ==
    IF lines = <<>> THEN st
    ELSE LET line == Head(lines)
             heading_match == HeadingMatch(line)
         IN IF heading_match.matched
            THEN LET section_content == Strip(Join(<<"\n">>, st.current_section_lines))
                     saved ==
                        IF /\ st.current_section_lines # <<>> \/ st.current_heading # <<>>
                           /\ section_content # <<>> \/ st.current_heading # <<>>
                        THEN st.sections
                                \o CreateSectionsFromContent(section_content, st.current_hierarchy)
                        ELSE st.sections
                     hierarchy == PushHeading(st.current_hierarchy, heading_match.level,
                                              heading_match.heading_text)
                 IN ParseLoop(Tail(lines),
                       [sections |-> Append(saved, ParsedSection(line, HEADING, hierarchy)),
                        current_hierarchy |-> hierarchy,
                        current_section_lines |-> <<>>,
                        current_heading |-> heading_match.heading_text])
            ELSE ParseLoop(Tail(lines),
                    [st EXCEPT !.current_section_lines = Append(@, line)])

\* MarkdownParser._parse_content: the sections of the ParsedDocument
ParseContent(content) ==
    LET st == ParseLoop(SplitLines(content),
                  [sections |-> <<>>, current_hierarchy |-> <<>>,
                   current_section_lines |-> <<>>, current_heading |-> <<>>])
        section_content == Strip(Join(<<"\n">>, st.current_section_lines))
    IN IF st.current_section_lines # <<>> /\ section_content # <<>>
       THEN st.sections \o CreateSectionsFromContent(section_content, st.current_hierarchy)
       ELSE st.sections

\* The blocks Markdown texts are written in: headings of level 1 and 2,
\* paragraphs, a list item.
Blocks ==
    { <<"#", " ", "T", "\n", "\n">>, <<"#", "#", " ", "S", "1", "\n", "\n">>, <<"#", "#", " ", "S", "2", "\n", "\n">>,
      <<"A", ".", "\n", "\n">>, <<"B", ".">>, <<"-", " ", "a", "\n">> }

\* The chunk_size values the StructureChunker of a Markdown file is made with.
MarkdownChunkSizes == {1, 1000}

MarkdownInit ==
    /\ mphase = "text"
    /\ md_blocks = 0
    /\ md_text = <<>>
    /\ md_sections = <<>>
    /\ md_chunker = NoChunker
    /\ md_chunks = <<>>

\* The file grows by a block.
WriteBlock ==
    /\ mphase = "text"
    /\ md_blocks < MaxBlocks
    /\ \E block \in Blocks : md_text' = md_text \o block
    /\ md_blocks' = md_blocks + 1
    /\ UNCHANGED <<mphase, md_sections, md_chunker, md_chunks>>
    /\ UNCHANGED <<chunkVars, hybridVars, crossRefVars, ingestVars, extractVars, apiVars, entityVars, createVars, sheetVars, groupVars>>

\* MarkdownParser().parse_bytes(content, filename), then
\* StructureChunker(chunk_size, include_heading_in_chunk).chunk(parsed, document_id)
ParseAndChunk ==
    /\ mphase = "text"
    /\ \E size \in MarkdownChunkSizes, include_heading \in BOOLEAN :
          /\ md_chunker' = NewStructureChunker(size, include_heading)
          /\ md_sections' = ParseContent(md_text)
          /\ md_chunks' = StructureChunkerChunk(md_chunker', md_sections')
    /\ mphase' = "chunked"
    /\ UNCHANGED <<md_blocks, md_text>>
    /\ UNCHANGED <<chunkVars, hybridVars, crossRefVars, ingestVars, extractVars, apiVars, entityVars, createVars, sheetVars, groupVars>>

MarkdownNext == WriteBlock \/ ParseAndChunk

----------------------------------------------------------------------------
(* Claims about HybridRetriever *)

\* The chunk ids a list of results holds, and a chunk's position in it from 0.
IdsOf(results) == {results[i].chunk_id : i \in 1..Len(results)}

PositionOf(results, chunk_id) ==
    (CHOOSE i \in 1..Len(results) : results[i].chunk_id = chunk_id) - 1

\* weight / (rrf_k + r + 1) for a chunk a list holds at position r, 0 for a
\* chunk it does not hold, in the units of ScoreScale.
Contribution(results, weight, chunk_id) ==
    IF chunk_id \in IdsOf(results)
    THEN (weight * ScoreScale) \div (rrf_k + PositionOf(results, chunk_id) + 1)
    ELSE 0

\* C6: _reciprocal_rank_fusion gives every chunk of the dense or the sparse
\* list one result, whose score is dense_weight / (rrf_k + r_d + 1) +
\* sparse_weight / (rrf_k + r_s + 1), r_d and r_s the chunk's 0-based
\* positions in the two lists, a list without the chunk contributing 0; and
\* it returns nothing else.
C6_FusedScoreIsWeightedReciprocalRank ==
    hphase = "fused" =>
        /\ IdsOf(fused) = IdsOf(dense_results) \cup IdsOf(sparse_results)
        /\ Len(fused) = Cardinality(IdsOf(fused))
        /\ \A i \in 1..Len(fused) :
              fused[i].score =
                  Contribution(dense_results, dense_weight, fused[i].chunk_id)
                  + Contribution(sparse_results, sparse_weight, fused[i].chunk_id)

\* A chunk at different positions in both lists, next to one that only the
\* dense and one that only the sparse list holds.
C6_Witness ==
    /\ hphase = "fused"
    /\ \E c \in IdsOf(dense_results) \cap IdsOf(sparse_results) :
          PositionOf(dense_results, c) # PositionOf(sparse_results, c)
    /\ IdsOf(dense_results) \ IdsOf(sparse_results) # {}
    /\ IdsOf(sparse_results) \ IdsOf(dense_results) # {}

\* C7: the list retrieve returns, and the list _reciprocal_rank_fusion
\* returns, have scores that never increase from one element to the next.
C7_FusedScoresNonIncreasing ==
    hphase \in {"fused", "retrieved"} =>
        \A i \in 1..Len(fused) - 1 : fused[i].score >= fused[i + 1].score

\* retrieve cut a fused list of different scores down to top_k >= 2 results.
C7_Witness ==
    /\ hphase = "retrieved"
    /\ Len(fused) >= 2
    /\ Len(dense_results) > Len(fused)
    /\ fused[1].score > fused[2].score

----------------------------------------------------------------------------
(* Claims about CrossRefRetriever *)

\* The chunk ids of the results a secondary search kept.
KeptIds(e) == IdsOf(searches[e].kept)

\* The secondary searches that brought a chunk into cross_refs, and the
\* first of them: the one whose result the deduplication lets through.
SearchesKeeping(chunk_id) == {e \in 1..Len(searches) : chunk_id \in KeptIds(e)}

FirstSearchKeeping(chunk_id) ==
    CHOOSE e \in SearchesKeeping(chunk_id) : \A d \in SearchesKeeping(chunk_id) : e <= d

\* The places of the cross-reference results in the returned list.
CrossRefPlaces == {i \in 1..Len(x_results) : x_results[i].source = "cross_reference"}

\* C8: every result tagged cross_reference in the returned list comes from a
\* secondary search, and its document_id is not the document_id of the
\* primary hit of any search that produced it.
C8_CrossRefsFromOtherDocuments ==
    xphase = "returned" =>
        \A i \in CrossRefPlaces :
            /\ SearchesKeeping(x_results[i].chunk_id) # {}
            /\ \A e \in SearchesKeeping(x_results[i].chunk_id) :
                  x_results[i].document_id # primary_results[searches[e].hit].document_id

\* The index answered a secondary search with a chunk of the primary hit's
\* own document next to one of another document, which is returned.
C8_Witness ==
    /\ xphase = "returned"
    /\ \E e \in 1..Len(searches) :
          /\ \E r \in 1..Len(searches[e].results) :
                searches[e].results[r].payload.document_id
                    = primary_results[searches[e].hit].document_id
          /\ \E i \in CrossRefPlaces : FirstSearchKeeping(x_results[i].chunk_id) = e

RECURSIVE FirstOccurrencesFrom(_, _)
\* The elements of a list from place i on whose chunk_id no earlier place has.
FirstOccurrencesFrom(combined, i) ==
    IF i > Len(combined) THEN <<>>
    ELSE (IF \E j \in 1..i - 1 : combined[j].chunk_id = combined[i].chunk_id
          THEN <<>> ELSE <<combined[i]>>)
         \o FirstOccurrencesFrom(combined, i + 1)

\* C9: retrieve returns no two results of one chunk_id; of primary results
\* followed by cross-reference results it returns each chunk's first
\* occurrence, so every primary result as it is, with its own score.
C9_NoDuplicateChunkIds ==
    xphase = "returned" =>
        /\ \A i, j \in 1..Len(x_results) :
              i # j => x_results[i].chunk_id # x_results[j].chunk_id
        /\ x_results = FirstOccurrencesFrom(primary_results \o cross_refs, 1)
        /\ \A i \in 1..Len(primary_results) : x_results[i] = primary_results[i]

\* A chunk is a primary hit and a cross-reference of another primary hit.
C9_Witness ==
    /\ xphase = "returned"
    /\ IdsOf(primary_results) \cap IdsOf(cross_refs) # {}
    /\ CrossRefPlaces # {}

\* C10: of every primary hit's secondary search at most max_cross_refs
\* results are in the returned list, and the list is no longer than the
\* primary hits plus max_cross_refs for every primary hit that is an api_spec
\* or a table_schema.
C10_AtMostMaxCrossRefsPerHit ==
    xphase = "returned" =>
        /\ \A hit \in 1..Len(primary_results) :
              Cardinality({i \in CrossRefPlaces :
                  searches[FirstSearchKeeping(x_results[i].chunk_id)].hit = hit})
                      <= max_cross_refs
        /\ Len(x_results) <=
              Len(primary_results)
              + max_cross_refs * Cardinality({hit \in 1..Len(primary_results) :
                    primary_results[hit].metadata.doc_type \in {"api_spec", "table_schema"}})

\* A secondary search found more than max_cross_refs chunks of other
\* documents, and max_cross_refs of them are returned.
C10_Witness ==
    /\ xphase = "returned"
    /\ \E e \in 1..Len(searches) :
          /\ Len(searches[e].related) > max_cross_refs
          /\ Cardinality({i \in CrossRefPlaces :
                 FirstSearchKeeping(x_results[i].chunk_id) = e}) = max_cross_refs

\* The hit whose secondary search brought the result at place i of the
\* returned list.
OriginOf(i) == searches[FirstSearchKeeping(x_results[i].chunk_id)].hit

IsPrimary(result) == result.source = "primary"

\* C11: in the returned list every primary result comes before every
\* cross-reference result, the primary results are in the order the index
\* returned them, and the cross-reference results are in the order of the
\* primary hits whose searches brought them.
C11_PrimaryThenCrossRefsByHit ==
    xphase = "returned" =>
        /\ \A i, j \in 1..Len(x_results) :
              (IsPrimary(x_results[i]) /\ ~IsPrimary(x_results[j])) => i < j
        /\ SelectSeq(x_results, IsPrimary) = primary_results
        /\ \A i, j \in CrossRefPlaces : i < j => OriginOf(i) <= OriginOf(j)

\* Two primary hits, each with a cross-reference of its own in the list.
C11_Witness ==
    /\ xphase = "returned"
    /\ Len(primary_results) >= 2
    /\ \E i, j \in CrossRefPlaces : OriginOf(i) < OriginOf(j)

\* C12: the list CrossRefRetriever.retrieve returns has scores that never
\* increase from one element to the next, the scaled scores of the
\* cross-reference results included.
C12_CrossRefScoresNonIncreasing ==
    xphase = "returned" =>
        \A i \in 1..Len(x_results) - 1 : x_results[i].score >= x_results[i + 1].score

\* C13: only a failure of the primary search makes retrieve fail.  When the
\* embedding or the search of a secondary query fails (the loop of
\* _find_cross_references is then at a primary hit, next_hit >= 1), retrieve
\* goes on and returns the primary results.
C13_SecondaryFailureNonFatal ==
    xphase = "failed" => next_hit = 0

----------------------------------------------------------------------------
(* Claims about DocumentService *)

\* The chunk ids of the chunks process_document made of document d.
ChunkIdsOf(d) == {pipelines[d].chunks[k].chunk_id : k \in 1..Len(pipelines[d].chunks)}

\* The documents an upsert went through for.
Upserted == {upsert_log[e].document : e \in 1..Len(upsert_log)}

\* C15: when process_document fails because no parser supports the
\* filename's extension, nothing has been written to file storage and
\* nothing has been upserted to the index for the document.
C15_UnsupportedFormatNoSideEffect ==
    \A d \in 1..NumDocs :
        (pipelines[d].pc = "failed" /\ pipelines[d].error = "no_parser") =>
            /\ d \notin storage
            /\ StoredChunkIds(points, d) = {}
            /\ d \notin Upserted

\* C16: a document of a supported format whose content the parser cannot
\* read gets no further than the parse: process_document fails, and no chunk
\* of the document is made, embedded or upserted.
C16_ParseFailureStoresNothing ==
    \A d \in 1..NumDocs :
        (/\ pipelines[d].pc # "idle"
         /\ GetParserForFile(pipelines[d].suffix) # 0
         /\ pipelines[d].content = "malformed") =>
            /\ pipelines[d].pc \in {"saved", "failed"}
            /\ pipelines[d].pc = "failed" => pipelines[d].error = "parse_error"
            /\ pipelines[d].chunks = <<>>
            /\ pipelines[d].embedded = 0
            /\ StoredChunkIds(points, d) = {}
            /\ d \notin Upserted

\* A parse has failed while the index holds another document's chunks.
C16_Witness ==
    /\ \E d \in 1..NumDocs :
          pipelines[d].pc = "failed" /\ pipelines[d].error = "parse_error"
    /\ upsert_log # <<>>

\* C17: an upsert writes all the chunks of its document at once, and there
\* is one only when all of them are embedded: a document whose embedding is
\* under way or whose ingestion has failed has no chunk in the index.
C17_StoreIsAllOrNothing ==
    /\ \A e \in 1..Len(upsert_log) :
          /\ upsert_log[e].written = ChunkIdsOf(upsert_log[e].document)
          /\ pipelines[upsert_log[e].document].embedded
                = Len(pipelines[upsert_log[e].document].chunks)
    /\ \A d \in 1..NumDocs :
          pipelines[d].pc \in {"chunked", "failed"} =>
              /\ StoredChunkIds(points, d) = {}
              /\ d \notin Upserted

\* The embedding failed after a chunk of the document had been embedded,
\* and a batch of more than one chunk was upserted.
C17_Witness ==
    /\ \E d \in 1..NumDocs :
          /\ pipelines[d].pc = "failed"
          /\ pipelines[d].error = "embedding"
          /\ pipelines[d].embedded >= 1
    /\ \E e \in 1..Len(upsert_log) : Cardinality(upsert_log[e].written) >= 2

\* C18: the index holds every chunk of every document whose
\* process_document has returned, in whatever order the calls took their
\* steps.
C18_IngestionsAreIndependent ==
    \A d \in 1..NumDocs :
        pipelines[d].pc = "indexed" => StoredChunkIds(points, d) = ChunkIdsOf(d)

----------------------------------------------------------------------------
(* Claims about MarkdownParser with StructureChunker *)

IsPrefix(short, long) ==
    /\ Len(short) <= Len(long)
    /\ short = SubSeq(long, 1, Len(short))

\* "# T\n\n## S1\n\nA.\n\n## S2\n\nB."
ScenarioText ==
    <<"#", " ", "T", "\n", "\n", "#", "#", " ", "S", "1", "\n", "\n", "A", ".", "\n", "\n", "#", "#", " ", "S", "2", "\n", "\n", "B", ".">>

\* C19: with chunk_size=1000 and include_heading_in_chunk=true the text
\* "# T\n\n## S1\n\nA.\n\n## S2\n\nB." gives exactly two chunks, the first
\* beginning with "T > S1", the second with "T > S2"; and whatever the text
\* and the chunk_size, with include_heading_in_chunk every chunk that has a
\* section_hierarchy begins with the hierarchy joined by " > " and a blank
\* line.
C19_HeadingPathPrefixesChunks ==
    mphase = "chunked" =>
        /\ (md_text = ScenarioText /\ md_chunker = NewStructureChunker(1000, TRUE)) =>
              /\ Len(md_chunks) = 2
              /\ IsPrefix(<<"T", " ", ">", " ", "S", "1">>, md_chunks[1].content)
              /\ IsPrefix(<<"T", " ", ">", " ", "S", "2">>, md_chunks[2].content)
        /\ md_chunker.include_heading_in_chunk =>
              \A i \in 1..Len(md_chunks) :
                  md_chunks[i].section_hierarchy # <<>> =>
                      IsPrefix(Join(<<" ", ">", " ">>, md_chunks[i].section_hierarchy)
                                  \o <<"\n", "\n">>,
                               md_chunks[i].content)

\* The scenario's text has been parsed and chunked with the scenario's chunker.
C19_Witness ==
    /\ mphase = "chunked"
    /\ md_text = ScenarioText
    /\ md_chunker = NewStructureChunker(1000, TRUE)
    /\ Len(md_chunks) = 2

----------------------------------------------------------------------------
(* TableExtractor (src/core/extractors/table_extractor.py)                 *)
(* The regular expressions are matched as Python's re matches them: at a  *)
(* place of the text, greedily, and finditer goes on after each match.    *)
(* The texts are ASCII without '|', so the alternatives of the patterns   *)
(* written in other scripts match nowhere.                                 *)

\* A statement has at most this many column declarations.
MaxColumns == 3

LowerLetters ==
    <<"a", "b", "c", "d", "e", "f", "g", "h", "i", "j", "k", "l", "m", "n",
      "o", "p", "q", "r", "s", "t", "u", "v", "w", "x", "y", "z">>

UpperLetters ==
    <<"A", "B", "C", "D", "E", "F", "G", "H", "I", "J", "K", "L", "M", "N",
      "O", "P", "Q", "R", "S", "T", "U", "V", "W", "X", "Y", "Z">>

\* The characters of \w in the order of their code points.
WordCharOrder ==
    <<"0", "1", "2", "3", "4", "5", "6", "7", "8", "9">> \o UpperLetters \o <<"_">> \o LowerLetters

\* \w
WordChars == {WordCharOrder[i] : i \in 1..Len(WordCharOrder)}

\* [`'\"], of which the texts have the apostrophe and the double quote
Quotes == {"'", "\""}

LowerChar(c) ==
    IF \E i \in 1..26 : UpperLetters[i] = c
    THEN LowerLetters[CHOOSE i \in 1..26 : UpperLetters[i] = c]
    ELSE c

UpperChar(c) ==
    IF \E i \in 1..26 : LowerLetters[i] = c
    THEN UpperLetters[CHOOSE i \in 1..26 : LowerLetters[i] = c]
    ELSE c

\* str.lower()
StrLower(s) == [i \in 1..Len(s) |-> LowerChar(s[i])]

\* str.upper()
StrUpper(s) == [i \in 1..Len(s) |-> UpperChar(s[i])]

\* `sub in s`
Contains(s, sub) ==
    \E i \in 1..(Len(s) - Len(sub) + 1) : SubSeq(s, i, i + Len(sub) - 1) = sub

\* A pattern that does not match at a place; a match has the place after it
\* as its `next`.
NoMatch == [next |-> 0]

\* The place after the longest run of characters of `set` that begins at p:
\* a greedy repetition of a character class.
RunEnd(text, p, set) == p + LeadingCount(DropFirst(text, p - 1), set)

\* A literal of a pattern compiled with re.IGNORECASE, given in lower case,
\* at place p.
WordAt(text, p, word) ==
    /\ p + Len(word) - 1 <= Len(text)
    /\ StrLower(SubSeq(text, p, p + Len(word) - 1)) = word

\* [`'\"]? at place p: the place after it.
OptionalQuoteEnd(text, p) ==
    IF p <= Len(text) /\ text[p] \in Quotes THEN p + 1 ELSE p

\* [`'\"]?(\w+)[`'\"]? at place p; the group is the name.
QuotedName(text, p) ==
    LET a == OptionalQuoteEnd(text, p)
        b == RunEnd(text, a, WordChars)
    IN  IF b = a THEN NoMatch
        ELSE [name |-> SubSeq(text, a, b - 1), next |-> OptionalQuoteEnd(text, b)]

RECURSIVE KeywordsEnd(_, _, _)
\* Literals each followed by \s+, as in CREATE\s+TABLE\s+, at place p: the
\* place after them, 0 when they are not there.
KeywordsEnd(text, p, words) ==
    IF words = <<>> THEN p
    ELSE IF ~WordAt(text, p, Head(words)) THEN 0
    ELSE LET a == p + Len(Head(words))
             b == RunEnd(text, a, Whitespace)
         IN  IF b = a THEN 0 ELSE KeywordsEnd(text, b, Tail(words))

\* TABLE_NAME_PATTERNS[0] at place p: (?:table)[:\s]+[`'\"]?(\w+)[`'\"]?
TableKeywordAt(text, p) ==
    IF ~WordAt(text, p, <<"t", "a", "b", "l", "e">>) THEN NoMatch
    ELSE LET a == p + 5
             b == RunEnd(text, a, Whitespace \cup {":"})
         IN  IF b = a THEN NoMatch ELSE QuotedName(text, b)

\* The places a pattern that begins with CREATE\s+TABLE\s+(?:IF\s+NOT\s+EXISTS\s+)?
\* goes on from, in the order the matcher tries them: after the optional
\* group when it is there, then without it.
AfterCreateTable(text, p) ==
    LET a == KeywordsEnd(text, p, <<<<"c", "r", "e", "a", "t", "e">>, <<"t", "a", "b", "l", "e">>>>)
        g == IF a = 0 THEN 0 ELSE KeywordsEnd(text, a, <<<<"i", "f">>, <<"n", "o", "t">>, <<"e", "x", "i", "s", "t", "s">>>>)
    IN  IF a = 0 THEN <<>> ELSE IF g = 0 THEN <<a>> ELSE <<g, a>>

RECURSIVE FirstMatch(_)
\* The first of the tries that matches.
FirstMatch(tries) ==
    IF tries = <<>> THEN NoMatch
    ELSE IF Head(tries).next # 0 THEN Head(tries)
    ELSE FirstMatch(Tail(tries))

\* TABLE_NAME_PATTERNS[1] at place p:
\* CREATE\s+TABLE\s+(?:IF\s+NOT\s+EXISTS\s+)?[`'\"]?(\w+)[`'\"]?
CreateTableNameAt(text, p) ==
    LET from == AfterCreateTable(text, p)
    IN  FirstMatch([k \in 1..Len(from) |-> QuotedName(text, from[k])])

\* TABLE_NAME_PATTERNS[2] at place p, ^#+\s*(\w+)\s*(?:table) with
\* re.MULTILINE: the name is the longest beginning of the word that
\* whitespace and "table" follow.
HeadingTableAt(text, p) ==
    LET h == RunEnd(text, p, {"#"})
        w == RunEnd(text, h, Whitespace)
        e == RunEnd(text, w, WordChars)
        ends == {x \in (w + 1)..e : WordAt(text, RunEnd(text, x, Whitespace), <<"t", "a", "b", "l", "e">>)}
        last == CHOOSE x \in ends : \A y \in ends : y <= x
    IN  IF (p > 1 /\ text[p - 1] # "\n") \/ h = p \/ ends = {} THEN NoMatch
        ELSE [name |-> SubSeq(text, w, last - 1),
              next |-> RunEnd(text, last, Whitespace) + 5]

\* TABLE_NAME_PATTERNS[3] at place p: (?:sheet)[:\s]+(\w+)
SheetAt(text, p) ==
    IF ~WordAt(text, p, <<"s", "h", "e", "e", "t">>) THEN NoMatch
    ELSE LET a == p + 5
             b == RunEnd(text, a, Whitespace \cup {":"})
             e == RunEnd(text, b, WordChars)
         IN  IF b = a \/ e = b THEN NoMatch
             ELSE [name |-> SubSeq(text, b, e - 1), next |-> e]

RECURSIVE FindIter(_, _)
\* pattern.finditer(text) from place p on, `at` giving the match of the
\* pattern at each place: the leftmost match, then the matches after it.
FindIter(at, p) ==
    IF p > Len(at) THEN <<>>
    ELSE IF at[p].next = 0 THEN FindIter(at, p + 1)
    ELSE <<at[p]>> \o FindIter(at, at[p].next)

\* The matches of the four TABLE_NAME_PATTERNS, pattern by pattern.
TableNameMatches(text) ==
    FindIter([p \in 1..Len(text) |-> TableKeywordAt(text, p)], 1)
    \o FindIter([p \in 1..Len(text) |-> CreateTableNameAt(text, p)], 1)
    \o FindIter([p \in 1..Len(text) |-> HeadingTableAt(text, p)], 1)
    \o FindIter([p \in 1..Len(text) |-> SheetAt(text, p)], 1)

\* invalid_names of _is_valid_table_name
InvalidNames ==
    { <<"t", "h", "e">>,
      <<"a">>,
      <<"a", "n">>,
      <<"t", "h", "i", "s">>,
      <<"t", "h", "a", "t">>,
      <<"t", "a", "b", "l", "e">>,
      <<"s", "c", "h", "e", "m", "a">>,
      <<"c", "o", "l", "u", "m", "n">>,
      <<"f", "i", "e", "l", "d">>,
      <<"n", "a", "m", "e">>,
      <<"t", "y", "p", "e">>,
      <<"d", "e", "s", "c", "r", "i", "p", "t", "i", "o", "n">>,
      <<"c", "r", "e", "a", "t", "e">>,
      <<"s", "e", "l", "e", "c", "t">>,
      <<"i", "n", "s", "e", "r", "t">>,
      <<"u", "p", "d", "a", "t", "e">>,
      <<"d", "e", "l", "e", "t", "e">> }

\* TableExtractor._is_valid_table_name
IsValidTableName(name) ==
    /\ name # <<>>
    /\ \A i \in 1..Len(name) : name[i] \in WordChars
    /\ StrLower(name) \notin InvalidNames

\* The rest of create_table_pattern after the name, \s*\((.*?)\) with
\* re.DOTALL, for a name matched up to `name.next`: the body is lazy, it ends
\* at the first ')' after the '('.
BodyAfter(text, name) ==
    LET c == RunEnd(text, name.next, Whitespace)
        closes == {x \in (c + 1)..Len(text) : text[x] = ")"}
        close == CHOOSE x \in closes : \A y \in closes : x <= y
    IN  IF name.next = 0 \/ c > Len(text) THEN NoMatch
        ELSE IF text[c] # "(" \/ closes = {} THEN NoMatch
        ELSE [name |-> name.name, body |-> SubSeq(text, c + 1, close - 1),
              next |-> close + 1]

\* create_table_pattern of extract_from_text at place p:
\* CREATE\s+TABLE\s+(?:IF\s+NOT\s+EXISTS\s+)?[`'\"]?(\w+)[`'\"]?\s*\((.*?)\)
CreateTableAt(text, p) ==
    LET from == AfterCreateTable(text, p)
    IN  FirstMatch([k \in 1..Len(from) |-> BodyAfter(text, QuotedName(text, from[k]))])

\* The alternatives of the type in COLUMN_PATTERN, in its order.
ColumnTypes ==
    << <<"v", "a", "r", "c", "h", "a", "r">>,
       <<"c", "h", "a", "r">>,
       <<"i", "n", "t">>,
       <<"i", "n", "t", "e", "g", "e", "r">>,
       <<"b", "i", "g", "i", "n", "t">>,
       <<"d", "e", "c", "i", "m", "a", "l">>,
       <<"n", "u", "m", "e", "r", "i", "c">>,
       <<"f", "l", "o", "a", "t">>,
       <<"d", "o", "u", "b", "l", "e">>,
       <<"t", "e", "x", "t">>,
       <<"d", "a", "t", "e">>,
       <<"d", "a", "t", "e", "t", "i", "m", "e">>,
       <<"t", "i", "m", "e", "s", "t", "a", "m", "p">>,
       <<"b", "o", "o", "l", "e", "a", "n">>,
       <<"b", "o", "o", "l">>,
       <<"j", "s", "o", "n">>,
       <<"u", "u", "i", "d">>,
       <<"s", "e", "r", "i", "a", "l">> >>

\* [\w\(\),\s]
TypeTailChars == WordChars \cup {"(", ")", ","} \cup Whitespace

\* COLUMN_PATTERN at place p: the name, whitespace, the first alternative of
\* the type that is there and everything of [\w\(\),\s]* after it.
ColumnAt(text, p) ==
    LET n == QuotedName(text, p)
        t == RunEnd(text, n.next, Whitespace)
        fits == {k \in 1..Len(ColumnTypes) : WordAt(text, t, ColumnTypes[k])}
        first == CHOOSE k \in fits : \A j \in fits : k <= j
        e == RunEnd(text, t + Len(ColumnTypes[first]), TypeTailChars)
    IN  IF n.next = 0 THEN NoMatch
        ELSE IF t = n.next \/ fits = {} THEN NoMatch
        ELSE [name |-> n.name, type |-> SubSeq(text, t, e - 1), next |-> e]

\* TableExtractor._parse_columns
ParseColumns(columns_text) ==
    LET found == FindIter([p \in 1..Len(columns_text) |-> ColumnAt(columns_text, p)], 1)
        is_nullable == ~Contains(StrUpper(columns_text), StrUpper(<<"n", "o", "t", " ", "n", "u", "l", "l">>))
        is_primary == Contains(StrUpper(columns_text), StrUpper(<<"p", "r", "i", "m", "a", "r", "y", " ", "k", "e", "y">>))
    IN  [k \in 1..Len(found) |->
            [name |-> found[k].name, type |-> Strip(found[k].type),
             nullable |-> is_nullable, primary_key |-> is_primary]]

\* TableExtractor._extract_from_markdown_table: its table_pattern begins with
\* a '|', which no text here has.
ExtractFromMarkdownTable(text) == <<>>

RECURSIVE StrLess(_, _)
\* a < b for two str of word characters
StrLess(a, b) ==
    LET Code(c) == CHOOSE i \in 1..Len(WordCharOrder) : WordCharOrder[i] = c
    IN  IF b = <<>> THEN FALSE
        ELSE IF a = <<>> THEN TRUE
        ELSE IF Head(a) # Head(b) THEN Code(Head(a)) < Code(Head(b))
        ELSE StrLess(Tail(a), Tail(b))

RECURSIVE SortedList(_)
\* sorted(list(names)) of a set of str
SortedList(names) ==
    IF names = {} THEN <<>>
    ELSE LET least == CHOOSE a \in names : \A b \in names \ {a} : StrLess(a, b)
         IN  <<least>> \o SortedList(names \ {least})

\* TableExtractor.extract_from_text
ExtractFromText(text) ==
    LET named == TableNameMatches(text)
        created == FindIter([p \in 1..Len(text) |-> CreateTableAt(text, p)], 1)
        names == {StrLower(named[k].name) : k \in {j \in 1..Len(named) :
                                       IsValidTableName(StrLower(named[j].name))}}
                 \cup {StrLower(created[k].name) : k \in 1..Len(created)}
        entries == [k \in 1..Len(created) |->
                       [table |-> StrLower(created[k].name),
                        columns |-> ParseColumns(created[k].body)]]
    IN  [table_names |-> SortedList(names),
         column_definitions |->
             SelectSeq(entries, LAMBDA entry : entry.columns # <<>>)
             \o ExtractFromMarkdownTable(text)]

\* How the statements begin:
\* `CREATE TABLE users (` and `create table if not exists "orders" (`
StatementHeads ==
    { <<"C", "R", "E", "A", "T", "E", " ", "T", "A", "B", "L", "E", " ", "u", "s", "e", "r", "s", " ", "(">>,
      <<"c", "r", "e", "a", "t", "e", " ", "t", "a", "b", "l", "e", " ", "i", "f", " ", "n", "o", "t", " ", "e", "x", "i", "s", "t", "s", " ", "\"", "o", "r", "d", "e", "r", "s", "\"", " ", "(">> }

\* The column declarations of the statements:
\* "id INT PRIMARY KEY", "name VARCHAR(50)", "age INT NOT NULL", "note TEXT"
ColumnDeclarations ==
    { <<"i", "d", " ", "I", "N", "T", " ", "P", "R", "I", "M", "A", "R", "Y", " ", "K", "E", "Y">>,
      <<"n", "a", "m", "e", " ", "V", "A", "R", "C", "H", "A", "R", "(", "5", "0", ")">>,
      <<"a", "g", "e", " ", "I", "N", "T", " ", "N", "O", "T", " ", "N", "U", "L", "L">>,
      <<"n", "o", "t", "e", " ", "T", "E", "X", "T">> }

ExtractInit ==
    /\ ephase = "idle"
    /\ e_columns = 0
    /\ e_text = <<>>
    /\ e_metadata = [table_names |-> <<>>, column_definitions |-> <<>>]

\* The statement begins.
StartStatement ==
    /\ ephase = "idle"
    /\ \E head \in StatementHeads : e_text' = head
    /\ ephase' = "statement"
    /\ UNCHANGED <<e_columns, e_metadata>>
    /\ UNCHANGED <<chunkVars, hybridVars, crossRefVars, ingestVars, markdownVars, apiVars, entityVars, createVars, sheetVars, groupVars>>

\* The statement declares one more column.
WriteColumn ==
    /\ ephase = "statement"
    /\ e_columns < MaxColumns
    /\ \E declaration \in ColumnDeclarations :
          e_text' = e_text \o (IF e_columns = 0 THEN <<>> ELSE <<",", " ">>) \o declaration
    /\ e_columns' = e_columns + 1
    /\ UNCHANGED <<ephase, e_metadata>>
    /\ UNCHANGED <<chunkVars, hybridVars, crossRefVars, ingestVars, markdownVars, apiVars, entityVars, createVars, sheetVars, groupVars>>

\* The statement is closed and TableExtractor().extract_from_text(text) is called.
ExtractStatement ==
    /\ ephase = "statement"
    /\ e_text' = e_text \o <<")">>
    /\ e_metadata' = ExtractFromText(e_text')
    /\ ephase' = "extracted"
    /\ UNCHANGED e_columns
    /\ UNCHANGED <<chunkVars, hybridVars, crossRefVars, ingestVars, markdownVars, apiVars, entityVars, createVars, sheetVars, groupVars>>

ExtractNext == StartStatement \/ WriteColumn \/ ExtractStatement

----------------------------------------------------------------------------
(* Claims about TableExtractor *)

\* "CREATE TABLE users (id INT PRIMARY KEY, name VARCHAR(50))"
ScenarioStatement ==
    <<"C", "R", "E", "A", "T", "E", " ", "T", "A", "B", "L", "E", " ", "u", "s", "e", "r", "s", " ", "(", "i", "d", " ", "I", "N", "T", " ", "P", "R", "I", "M", "A", "R", "Y", " ", "K", "E", "Y", ",", " ", "n", "a", "m", "e", " ", "V", "A", "R", "C", "H", "A", "R", "(", "5", "0", ")", ")">>

\* C20: extract_from_text on CREATE TABLE users (id INT PRIMARY KEY,
\* name VARCHAR(50)) yields the table names {users} and exactly one
\* column_definitions entry, which has 2 columns: id of type INT and name of
\* type VARCHAR(50).
C20_CreateTableYieldsTwoColumns ==
    (ephase = "extracted" /\ e_text = ScenarioStatement) =>
        /\ e_metadata.table_names = <<<<"u", "s", "e", "r", "s">>>>
        /\ Len(e_metadata.column_definitions) = 1
        /\ Len(e_metadata.column_definitions[1].columns) = 2
        /\ e_metadata.column_definitions[1].columns[1].name = <<"i", "d">>
        /\ e_metadata.column_definitions[1].columns[1].type = <<"I", "N", "T">>
        /\ e_metadata.column_definitions[1].columns[2].name = <<"n", "a", "m", "e">>
        /\ e_metadata.column_definitions[1].columns[2].type = <<"V", "A", "R", "C", "H", "A", "R", "(", "5", "0", ")">>

\* What extract_from_text returns for that statement: the table name, and one
\* entry with one column, id, whose type is the rest of the body up to the
\* first ')'.
C20_ExtractedFromScenario ==
    (ephase = "extracted" /\ e_text = ScenarioStatement) =>
        /\ e_metadata.table_names = <<<<"u", "s", "e", "r", "s">>>>
        /\ e_metadata.column_definitions =
              << [table |-> <<"u", "s", "e", "r", "s">>,
                  columns |-> << [name |-> <<"i", "d">>,
                                  type |-> <<"I", "N", "T", " ", "P", "R", "I", "M", "A", "R", "Y", " ", "K", "E", "Y", ",", " ", "n", "a", "m", "e", " ", "V", "A", "R", "C", "H", "A", "R", "(", "5", "0">>,
                                  nullable |-> TRUE, primary_key |-> TRUE] >>] >>

\* The scenario's statement has been extracted from.
C20_ScenarioExtracted ==
    ephase = "extracted" /\ e_text = ScenarioStatement

----------------------------------------------------------------------------
(* APIExtractor (src/core/extractors/api_extractor.py)                    *)
(* A string is a sequence of characters; the back quote is the character  *)
(* written BackQuote.                                                      *)

\* A text is written in at most this many fragments.
MaxFragments == 3

\* The character `
BackQuote == "backquote"

\* The characters of the texts in the order of their code points.
CodePointOrder ==
    <<"\t", "\n", " ", "#", "(", ")", ",", ".", "/",
      "0", "1", "2", "3", "4", "5", "6", "7", "8", "9", ":", ";">>
    \o UpperLetters \o <<"_", BackQuote>> \o LowerLetters \o <<"{", "}">>

RECURSIVE StrBefore(_, _)
\* a < b for two str
StrBefore(a, b) ==
    LET Code(c) == CHOOSE i \in 1..Len(CodePointOrder) : CodePointOrder[i] = c
    IN  IF b = <<>> THEN FALSE
        ELSE IF a = <<>> THEN TRUE
        ELSE IF Head(a) # Head(b) THEN Code(Head(a)) < Code(Head(b))
        ELSE StrBefore(Tail(a), Tail(b))

RECURSIVE SortedStrings(_)
\* sorted(list(strings)) of a set of str
SortedStrings(strings) ==
    IF strings = {} THEN <<>>
    ELSE LET least == CHOOSE a \in strings : \A b \in strings \ {a} : StrBefore(a, b)
         IN  <<least>> \o SortedStrings(strings \ {least})

\* APIExtractor.HTTP_METHODS
HTTP_METHODS ==
    { <<"G", "E", "T">>, <<"P", "O", "S", "T">>, <<"P", "U", "T">>, <<"D", "E", "L", "E", "T", "E">>, <<"P", "A", "T", "C", "H">>,
      <<"H", "E", "A", "D">>, <<"O", "P", "T", "I", "O", "N", "S">> }

\* (GET|POST|PUT|DELETE|PATCH), as the patterns compiled with re.IGNORECASE
\* have it
FiveVerbs ==
    << <<"g", "e", "t">>, <<"p", "o", "s", "t">>, <<"p", "u", "t">>, <<"d", "e", "l", "e", "t", "e">>, <<"p", "a", "t", "c", "h">> >>

\* (GET|POST|PUT|DELETE|PATCH|HEAD|OPTIONS)
SevenVerbs == FiveVerbs \o << <<"h", "e", "a", "d">>, <<"o", "p", "t", "i", "o", "n", "s">> >>

\* The place after the first of the alternatives that is at place p, 0 when
\* none is.
AlternativeEnd(text, p, alternatives) ==
    LET fits == {k \in 1..Len(alternatives) : WordAt(text, p, alternatives[k])}
        first == CHOOSE k \in fits : \A j \in fits : k <= j
    IN  IF fits = {} THEN 0 ELSE p + Len(alternatives[first])

\* The place after the longest run, from place p, of characters that are not
\* in `set`: a greedy repetition of a negated class.
RunEndNot(text, p, set) ==
    LET stops == {x \in p..Len(text) : text[x] \in set}
    IN  IF stops = {} THEN Len(text) + 1 ELSE CHOOSE x \in stops : \A y \in stops : x <= y

\* (VERB)\s+(/[^\s\n]+) at place v: the two groups, verb and path.
VerbAndPathAt(text, v, verbs) ==
    LET a == AlternativeEnd(text, v, verbs)
        b == RunEnd(text, a, Whitespace)
        e == RunEndNot(text, b + 1, Whitespace)
    IN  IF a = 0 THEN NoMatch
        ELSE IF b = a \/ b > Len(text) THEN NoMatch
        ELSE IF text[b] # "/" \/ e = b + 1 THEN NoMatch
        ELSE [groups |-> <<SubSeq(text, v, a - 1), SubSeq(text, b, e - 1)>>, next |-> e]

\* The places a pattern goes on from after (?:^|\n) at place p, in the order
\* the matcher tries them: the beginning of the text, then after a newline.
AfterLineStart(text, p) ==
    (IF p = 1 THEN <<p>> ELSE <<>>) \o (IF text[p] = "\n" THEN <<p + 1>> ELSE <<>>)

\* ENDPOINT_PATTERNS[0] at place p: (?:^|\n)#+\s*(GET|...)\s+(/[^\s\n]+)
MarkdownEndpointAt(text, p) ==
    LET from == AfterLineStart(text, p)
        Try(q) == LET h == RunEnd(text, q, {"#"})
                  IN  IF h = q THEN NoMatch
                      ELSE VerbAndPathAt(text, RunEnd(text, h, Whitespace), FiveVerbs)
    IN  FirstMatch([k \in 1..Len(from) |-> Try(from[k])])

\* ENDPOINT_PATTERNS[1] at place p: (?:^|\n)\s*(GET|...|OPTIONS)\s+(/[^\s\n]+)
PlainEndpointAt(text, p) ==
    LET from == AfterLineStart(text, p)
    IN  FirstMatch([k \in 1..Len(from) |->
            VerbAndPathAt(text, RunEnd(text, from[k], Whitespace), SevenVerbs)])

\* \s*\((GET|...)\) at place e: the verb and the place after the ')'.
VerbInParenthesesAt(text, e) ==
    LET o == RunEnd(text, e, Whitespace)
        a == IF o <= Len(text) /\ text[o] = "(" THEN AlternativeEnd(text, o + 1, FiveVerbs) ELSE 0
    IN  IF a = 0 \/ a > Len(text) THEN NoMatch
        ELSE IF text[a] # ")" THEN NoMatch
        ELSE [verb |-> SubSeq(text, o + 1, a - 1), next |-> a + 1]

\* ENDPOINT_PATTERNS[2] at place p: (/api/[^\s\n\)]+)\s*\((GET|...)\); the
\* path is the longest that the verb in parentheses follows.
RestEndpointAt(text, p) ==
    LET longest == RunEndNot(text, p + 5, Whitespace \cup {")"})
        ends == {e \in (p + 6)..longest : VerbInParenthesesAt(text, e).next # 0}
        last == CHOOSE e \in ends : \A y \in ends : y <= e
        after == VerbInParenthesesAt(text, last)
    IN  IF ~WordAt(text, p, <<"/", "a", "p", "i", "/">>) \/ ends = {} THEN NoMatch
        ELSE [groups |-> <<SubSeq(text, p, last - 1), after.verb>>, next |-> after.next]

\* ENDPOINT_PATTERNS[3] at place p: `(GET|...)\s+(/[^`]+)`
QuotedEndpointAt(text, p) ==
    LET a == AlternativeEnd(text, p + 1, FiveVerbs)
        b == RunEnd(text, a, Whitespace)
        e == RunEndNot(text, b + 1, {BackQuote})
    IN  IF text[p] # BackQuote \/ a = 0 THEN NoMatch
        ELSE IF b = a \/ b > Len(text) THEN NoMatch
        ELSE IF text[b] # "/" \/ e = b + 1 \/ e > Len(text) THEN NoMatch
        ELSE [groups |-> <<SubSeq(text, p + 1, a - 1), SubSeq(text, b, e - 1)>>,
              next |-> e + 1]

\* ENDPOINT_PATTERNS[4] at place p:
\* (?:endpoint|api|route|path)[:]\s*(GET|...)?\s*(/[^\s\n]+); the verb group
\* is empty when the verb is not there.
ContextEndpointAt(text, p) ==
    LET k == AlternativeEnd(text, p, << <<"e", "n", "d", "p", "o", "i", "n", "t">>, <<"a", "p", "i">>, <<"r", "o", "u", "t", "e">>, <<"p", "a", "t", "h">> >>)
        w == RunEnd(text, k + 1, Whitespace)
        a == AlternativeEnd(text, w, FiveVerbs)
        b == RunEnd(text, IF a = 0 THEN w ELSE a, Whitespace)
        e == RunEndNot(text, b + 1, Whitespace)
    IN  IF k = 0 \/ k > Len(text) THEN NoMatch
        ELSE IF text[k] # ":" \/ b > Len(text) THEN NoMatch
        ELSE IF text[b] # "/" \/ e = b + 1 THEN NoMatch
        ELSE [groups |-> <<IF a = 0 THEN <<>> ELSE SubSeq(text, w, a - 1),
                           SubSeq(text, b, e - 1)>>,
              next |-> e]

\* The matches extract_from_text goes through, pattern by pattern.
EndpointMatches(text) ==
    FindIter([p \in 1..Len(text) |-> MarkdownEndpointAt(text, p)], 1)
    \o FindIter([p \in 1..Len(text) |-> PlainEndpointAt(text, p)], 1)
    \o FindIter([p \in 1..Len(text) |-> RestEndpointAt(text, p)], 1)
    \o FindIter([p \in 1..Len(text) |-> QuotedEndpointAt(text, p)], 1)
    \o FindIter([p \in 1..Len(text) |-> ContextEndpointAt(text, p)], 1)

RECURSIVE RStripChars(_, _)
\* str.rstrip(chars)
RStripChars(s, chars) ==
    IF s # <<>> /\ s[Len(s)] \in chars THEN RStripChars(SubSeq(s, 1, Len(s) - 1), chars)
    ELSE s

RECURSIVE SubParams(_)
\* re.sub(r":(\w+)", r"{\1}", path)
SubParams(path) ==
    IF path = <<>> THEN <<>>
    ELSE LET e == RunEnd(path, 2, WordChars)
         IN  IF Head(path) = ":" /\ e > 2
             THEN <<"{">> \o SubSeq(path, 2, e - 1) \o <<"}">>
                  \o SubParams(SubSeq(path, e, Len(path)))
             ELSE <<Head(path)>> \o SubParams(Tail(path))

\* APIExtractor._normalize_path
NormalizePath(path) == SubParams(RStripChars(path, {".", ",", ";", ":", ")"}))

\* The groups taken in the order verb, path.
GroupsVerbFirst(groups, method, path) ==
    IF groups = <<>> THEN [method |-> method, path |-> path]
    ELSE [method |-> StrUpper(groups[1]), path |-> NormalizePath(groups[2])]

RECURSIVE GroupsLoop(_, _, _)
\* `for group in groups` of extract_from_text: the method and the path it
\* leaves, the empty string for None.
GroupsLoop(groups, method, path) ==
    IF groups = <<>> THEN [method |-> method, path |-> path]
    ELSE LET group == Head(groups)
         IN  IF group = <<>> THEN GroupsLoop(Tail(groups), method, path)
             ELSE IF StrUpper(group) \in HTTP_METHODS
                  THEN GroupsLoop(Tail(groups), StrUpper(group), path)
             ELSE IF Head(group) = "/"
                  THEN GroupsLoop(Tail(groups), method, NormalizePath(group))
             ELSE GroupsLoop(Tail(groups), method, path)

\* What a match adds to endpoints: f"{method} {path}" or the path.
EndpointOf(found) ==
    IF found.method # <<>> THEN found.method \o <<" ">> \o found.path ELSE found.path

\* APIExtractor.extract_from_text
ApiExtractFromText(text) ==
    LET matches == EndpointMatches(text)
        found == [k \in 1..Len(matches) |-> GroupsLoop(matches[k].groups, <<>>, <<>>)]
        endpoints == {EndpointOf(found[k]) : k \in {j \in 1..Len(found) : found[j].path # <<>>}}
        methods == {found[k].method : k \in {j \in 1..Len(found) :
                                        found[j].path # <<>> /\ found[j].method # <<>>}}
    IN  [api_endpoints |-> SortedStrings(endpoints),
         http_methods |-> SortedStrings(methods)]

\* The fragments the texts are written in: "GET /api/users", a newline,
\* "POST /api/users", "## ", "/api/users/:id (put)", "api: /v1/items." and
\* "`delete /a/:k`".
ApiFragments ==
    { <<"G", "E", "T", " ", "/", "a", "p", "i", "/", "u", "s", "e", "r", "s">>,
      <<"\n">>,
      <<"P", "O", "S", "T", " ", "/", "a", "p", "i", "/", "u", "s", "e", "r", "s">>,
      <<"#", "#", " ">>,
      <<"/", "a", "p", "i", "/", "u", "s", "e", "r", "s", "/", ":", "i", "d", " ", "(", "p", "u", "t", ")">>,
      <<"a", "p", "i", ":", " ", "/", "v", "1", "/", "i", "t", "e", "m", "s", ".">>,
      <<BackQuote, "d", "e", "l", "e", "t", "e", " ", "/", "a", "/", ":", "k", BackQuote>> }

ApiInit ==
    /\ aphase = "text"
    /\ a_fragments = 0
    /\ a_text = <<>>
    /\ a_matches = <<>>
    /\ a_metadata = [api_endpoints |-> <<>>, http_methods |-> <<>>]

\* The text grows by a fragment.
WriteFragment ==
    /\ aphase = "text"
    /\ a_fragments < MaxFragments
    /\ \E fragment \in ApiFragments : a_text' = a_text \o fragment
    /\ a_fragments' = a_fragments + 1
    /\ UNCHANGED <<aphase, a_matches, a_metadata>>
    /\ UNCHANGED <<chunkVars, hybridVars, crossRefVars, ingestVars, markdownVars, extractVars, entityVars, createVars, sheetVars, groupVars>>

\* APIExtractor().extract_from_text(text)
ApiExtract ==
    /\ aphase = "text"
    /\ a_matches' = EndpointMatches(a_text)
    /\ a_metadata' = ApiExtractFromText(a_text)
    /\ aphase' = "extracted"
    /\ UNCHANGED <<a_fragments, a_text>>
    /\ UNCHANGED <<chunkVars, hybridVars, crossRefVars, ingestVars, markdownVars, extractVars, entityVars, createVars, sheetVars, groupVars>>

ApiNext == WriteFragment \/ ApiExtract

----------------------------------------------------------------------------
(* Claims about APIExtractor *)

\* The elements of a list.
Range(list) == {list[i] : i \in 1..Len(list)}

\* The groups of a match that hold a verb, and those that hold a path.
VerbGroups(groups) == {g \in Range(groups) : g # <<>> /\ StrUpper(g) \in HTTP_METHODS}

PathGroups(groups) == {g \in Range(groups) : g # <<>> /\ Head(g) = "/"}

\* The endpoints the matches are to leave, whatever the order of their groups.
ExpectedEndpoints ==
    UNION { IF VerbGroups(m.groups) = {}
            THEN {NormalizePath(path) : path \in PathGroups(m.groups)}
            ELSE {StrUpper(verb) \o <<" ">> \o NormalizePath(path) :
                      verb \in VerbGroups(m.groups), path \in PathGroups(m.groups)}
          : m \in Range(a_matches) }

ExpectedMethods ==
    UNION { IF PathGroups(m.groups) = {} THEN {}
            ELSE {StrUpper(verb) : verb \in VerbGroups(m.groups)}
          : m \in Range(a_matches) }

\* The verb of an endpoint "<VERB> <path>"; a bare path has none.
VerbsIn(endpoints) ==
    {SubSeq(e, 1, RunEndNot(e, 1, {" "}) - 1) : e \in {x \in endpoints : Head(x) # "/"}}

\* "GET /api/users\nPOST /api/users"
ApiScenarioText ==
    <<"G", "E", "T", " ", "/", "a", "p", "i", "/", "u", "s", "e", "r", "s", "\n", "P", "O", "S", "T", " ", "/", "a", "p", "i", "/", "u", "s", "e", "r", "s">>

\* C21: whatever the order of a pattern's groups, a match with a verb and a
\* path records "<VERB> <path>" with the verb in upper case and adds the verb
\* to http_methods, a match with a path only records the bare path; no
\* recorded endpoint keeps a ":name" parameter; http_methods is exactly the
\* set of the verbs of api_endpoints; and the text "GET /api/users",
\* newline, "POST /api/users" yields these two endpoints and GET and POST.
C21_EndpointsAndMethods ==
    aphase = "extracted" =>
        /\ Range(a_metadata.api_endpoints) = ExpectedEndpoints
        /\ Range(a_metadata.http_methods) = ExpectedMethods
        /\ \A e \in Range(a_metadata.api_endpoints) :
              \A i \in 1..(Len(e) - 1) : ~(e[i] = ":" /\ e[i + 1] \in WordChars)
        /\ Range(a_metadata.http_methods) = VerbsIn(Range(a_metadata.api_endpoints))
        /\ a_text = ApiScenarioText =>
              /\ a_metadata.api_endpoints = << <<"G", "E", "T", " ", "/", "a", "p", "i", "/", "u", "s", "e", "r", "s">>,
                                               <<"P", "O", "S", "T", " ", "/", "a", "p", "i", "/", "u", "s", "e", "r", "s">> >>
              /\ a_metadata.http_methods = << <<"G", "E", "T">>, <<"P", "O", "S", "T">> >>

\* A text has been extracted from that has a match with the path before the
\* verb, a match with a path only and a rewritten parameter.
C21_Witness ==
    /\ aphase = "extracted"
    /\ \E m \in Range(a_matches) : m.groups[1] # <<>> /\ Head(m.groups[1]) = "/"
    /\ \E m \in Range(a_matches) : m.groups[1] = <<>>
    /\ \E e \in Range(a_metadata.api_endpoints) : \E i \in 1..Len(e) : e[i] = "{"
    /\ Len(a_metadata.http_methods) >= 1

----------------------------------------------------------------------------
(* EntityExtractor (src/core/extractors/entity_extractor.py)              *)
(* The texts are ASCII, so the alternatives of the patterns written in    *)
(* other scripts match nowhere.                                            *)

\* A text is written in at most this many pieces.
MaxPieces == 3

\* [A-Z] and [a-z]
UpperSet == {UpperLetters[i] : i \in 1..26}

LowerSet == {LowerLetters[i] : i \in 1..26}

\* EntityExtractor.EXCLUDED_WORDS
EXCLUDED_WORDS ==
    { <<"t", "h", "e">>,
      <<"a">>,
      <<"a", "n">>,
      <<"t", "h", "i", "s">>,
      <<"t", "h", "a", "t">>,
      <<"t", "h", "e", "s", "e">>,
      <<"t", "h", "o", "s", "e">>,
      <<"a", "n", "d">>,
      <<"o", "r">>,
      <<"b", "u", "t">>,
      <<"f", "o", "r">>,
      <<"w", "i", "t", "h">>,
      <<"f", "r", "o", "m">>,
      <<"t", "o">>,
      <<"i", "s">>,
      <<"a", "r", "e">>,
      <<"w", "a", "s">>,
      <<"w", "e", "r", "e">>,
      <<"b", "e">>,
      <<"b", "e", "e", "n">>,
      <<"b", "e", "i", "n", "g">>,
      <<"h", "a", "v", "e">>,
      <<"h", "a", "s">>,
      <<"h", "a", "d">>,
      <<"d", "o">>,
      <<"d", "o", "e", "s">>,
      <<"d", "i", "d">>,
      <<"w", "i", "l", "l">>,
      <<"w", "o", "u", "l", "d">>,
      <<"c", "o", "u", "l", "d">>,
      <<"s", "h", "o", "u", "l", "d">>,
      <<"m", "a", "y">>,
      <<"m", "i", "g", "h", "t">>,
      <<"g", "e", "t">>,
      <<"s", "e", "t">>,
      <<"c", "r", "e", "a", "t", "e">>,
      <<"u", "p", "d", "a", "t", "e">>,
      <<"d", "e", "l", "e", "t", "e">>,
      <<"r", "e", "a", "d">>,
      <<"a", "p", "i">>,
      <<"h", "t", "t", "p">>,
      <<"r", "e", "s", "t">>,
      <<"j", "s", "o", "n">>,
      <<"x", "m", "l">>,
      <<"s", "q", "l">>,
      <<"d", "a", "t", "a", "b", "a", "s", "e">>,
      <<"t", "a", "b", "l", "e">>,
      <<"c", "o", "l", "u", "m", "n">>,
      <<"f", "i", "e", "l", "d">>,
      <<"s", "c", "h", "e", "m", "a">>,
      <<"r", "e", "q", "u", "e", "s", "t">>,
      <<"r", "e", "s", "p", "o", "n", "s", "e">>,
      <<"e", "n", "d", "p", "o", "i", "n", "t">>,
      <<"m", "e", "t", "h", "o", "d">>,
      <<"s", "t", "r", "i", "n", "g">>,
      <<"i", "n", "t", "e", "g", "e", "r">>,
      <<"b", "o", "o", "l", "e", "a", "n">>,
      <<"a", "r", "r", "a", "y">>,
      <<"o", "b", "j", "e", "c", "t">>,
      <<"n", "u", "l", "l">>,
      <<"u", "n", "d", "e", "f", "i", "n", "e", "d">>,
      <<"v", "o", "i", "d">>,
      <<"a", "n", "y">>,
      <<"p", "u", "b", "l", "i", "c">>,
      <<"p", "r", "i", "v", "a", "t", "e">>,
      <<"p", "r", "o", "t", "e", "c", "t", "e", "d">>,
      <<"s", "t", "a", "t", "i", "c">>,
      <<"c", "l", "a", "s", "s">>,
      <<"i", "n", "t", "e", "r", "f", "a", "c", "e">>,
      <<"f", "u", "n", "c", "t", "i", "o", "n">>,
      <<"e", "x", "a", "m", "p", "l", "e">>,
      <<"n", "o", "t", "e">>,
      <<"w", "a", "r", "n", "i", "n", "g">>,
      <<"i", "n", "f", "o">>,
      <<"e", "r", "r", "o", "r">>,
      <<"v", "e", "r", "s", "i", "o", "n">>,
      <<"d", "a", "t", "e">>,
      <<"t", "i", "m", "e">>,
      <<"d", "e", "s", "c", "r", "i", "p", "t", "i", "o", "n">> }

\* EntityExtractor.ENTITY_SUFFIXES
ENTITY_SUFFIXES ==
    { <<"e", "n", "t", "i", "t", "y">>,
      <<"m", "o", "d", "e", "l">>,
      <<"d", "t", "o">>,
      <<"v", "o">>,
      <<"d", "o">>,
      <<"p", "o">>,
      <<"r", "e", "c", "o", "r", "d">>,
      <<"i", "t", "e", "m">>,
      <<"e", "n", "t", "r", "y">>,
      <<"d", "a", "t", "a">>,
      <<"i", "n", "f", "o">>,
      <<"d", "e", "t", "a", "i", "l">>,
      <<"s", "u", "m", "m", "a", "r", "y">>,
      <<"r", "e", "q", "u", "e", "s", "t">>,
      <<"r", "e", "s", "p", "o", "n", "s", "e">> }

\* ^ of a pattern compiled with re.MULTILINE
AtLineStart(text, p) == p = 1 \/ text[p - 1] = "\n"

\* $ of a pattern compiled with re.MULTILINE
AtLineEnd(text, p) == p = Len(text) + 1 \/ (p <= Len(text) /\ text[p] = "\n")

\* \b at place p
AtWordBoundary(text, p) ==
    (p > 1 /\ text[p - 1] \in WordChars) # (p <= Len(text) /\ text[p] \in WordChars)

\* ENTITY_PATTERNS[0] at place p: (?:class|interface|struct|type)\s+(\w+)
DefinitionAt(text, p) ==
    LET k == AlternativeEnd(text, p, << <<"c", "l", "a", "s", "s">>, <<"i", "n", "t", "e", "r", "f", "a", "c", "e">>,
                                         <<"s", "t", "r", "u", "c", "t">>, <<"t", "y", "p", "e">> >>)
        w == RunEnd(text, k, Whitespace)
        e == RunEnd(text, w, WordChars)
    IN  IF k = 0 THEN NoMatch
        ELSE IF w = k \/ e = w THEN NoMatch
        ELSE [name |-> SubSeq(text, w, e - 1), next |-> e]

\* ENTITY_PATTERNS[1] at place p: (\w+)\s+(?:entity|model|object|domain|aggregate)
MentionAt(text, p) ==
    LET e == RunEnd(text, p, WordChars)
        w == RunEnd(text, e, Whitespace)
        k == AlternativeEnd(text, w, << <<"e", "n", "t", "i", "t", "y">>, <<"m", "o", "d", "e", "l">>, <<"o", "b", "j", "e", "c", "t">>,
                                         <<"d", "o", "m", "a", "i", "n">>, <<"a", "g", "g", "r", "e", "g", "a", "t", "e">> >>)
    IN  IF e = p \/ w = e \/ k = 0 THEN NoMatch
        ELSE [name |-> SubSeq(text, p, e - 1), next |-> k]

RECURSIVE HumpEnds(_, _)
\* The places after the [A-Z][a-z]+ that follow one another from place p.
HumpEnds(text, p) ==
    LET e == RunEnd(text, p + 1, LowerSet)
    IN  IF p <= Len(text) /\ text[p] \in UpperSet /\ e > p + 1
        THEN <<e>> \o HumpEnds(text, e)
        ELSE <<>>

\* ENTITY_PATTERNS[2] at place p: \b([A-Z][a-z]+(?:[A-Z][a-z]+)+)\b
PascalCaseAt(text, p) ==
    LET ends == HumpEnds(text, p)
        e == ends[Len(ends)]
    IN  IF ~AtWordBoundary(text, p) \/ Len(ends) < 2 THEN NoMatch
        ELSE IF ~AtWordBoundary(text, e) THEN NoMatch
        ELSE [name |-> SubSeq(text, p, e - 1), next |-> e]

\* ENTITY_PATTERNS[3] at place p: ^(\w+)[:]\s*(?:represents)
RepresentsAt(text, p) ==
    LET e == RunEnd(text, p, WordChars)
        w == RunEnd(text, e + 1, Whitespace)
    IN  IF ~AtLineStart(text, p) \/ e = p \/ e > Len(text) THEN NoMatch
        ELSE IF text[e] # ":" \/ ~WordAt(text, w, <<"r", "e", "p", "r", "e", "s", "e", "n", "t", "s">>) THEN NoMatch
        ELSE [name |-> SubSeq(text, p, e - 1), next |-> w + 10]

\* ENTITY_PATTERNS[4] at place p: ^#+\s*(\w+)\s*(?:Entity|Model)?$ ; the
\* whitespace after the name is as long as the rest allows, and the optional
\* word is taken when the line ends after it.
HeaderAt(text, p) ==
    LET h == RunEnd(text, p, {"#"})
        w == RunEnd(text, h, Whitespace)
        e == RunEnd(text, w, WordChars)
        EndFrom(s) ==
            LET k == AlternativeEnd(text, s, << <<"e", "n", "t", "i", "t", "y">>, <<"m", "o", "d", "e", "l">> >>)
            IN  IF k # 0 /\ AtLineEnd(text, k) THEN k
                ELSE IF AtLineEnd(text, s) THEN s ELSE 0
        stops == {s \in e..RunEnd(text, e, Whitespace) : EndFrom(s) # 0}
        last == CHOOSE s \in stops : \A y \in stops : y <= s
    IN  IF ~AtLineStart(text, p) \/ h = p \/ e = w \/ stops = {} THEN NoMatch
        ELSE [name |-> SubSeq(text, w, e - 1), next |-> EndFrom(last)]

\* The names of the matches extract_from_text goes through, pattern by pattern.
EntityMatches(text) ==
    LET found == FindIter([p \in 1..Len(text) |-> DefinitionAt(text, p)], 1)
                 \o FindIter([p \in 1..Len(text) |-> MentionAt(text, p)], 1)
                 \o FindIter([p \in 1..Len(text) |-> PascalCaseAt(text, p)], 1)
                 \o FindIter([p \in 1..Len(text) |-> RepresentsAt(text, p)], 1)
                 \o FindIter([p \in 1..Len(text) |-> HeaderAt(text, p)], 1)
    IN  [k \in 1..Len(found) |-> found[k].name]

\* str.isalnum() of a str that is not empty
IsAlnum(name) == \A i \in 1..Len(name) : name[i] \in WordChars \ {"_"}

\* str.isupper(): no lower-case letter and at least one upper-case letter
IsUpper(name) ==
    /\ \A i \in 1..Len(name) : name[i] \notin LowerSet
    /\ \E i \in 1..Len(name) : name[i] \in UpperSet

\* str.endswith(suffix)
EndsWith(name, suffix) ==
    /\ Len(suffix) <= Len(name)
    /\ SubSeq(name, Len(name) - Len(suffix) + 1, Len(name)) = suffix

\* EntityExtractor._has_entity_suffix
HasEntitySuffix(name) == \E suffix \in ENTITY_SUFFIXES : EndsWith(StrLower(name), suffix)

\* EntityExtractor._is_valid_entity
IsValidEntity(name) ==
    /\ Len(name) >= 2
    /\ IsAlnum(name)
    /\ StrLower(name) \notin EXCLUDED_WORDS
    /\ (name[1] \in UpperSet \/ HasEntitySuffix(name))
    /\ ~(IsUpper(name) /\ Len(name) > 3)

\* EntityExtractor._normalize_entity
NormalizeEntity(name) ==
    IF name[1] \in LowerSet THEN <<UpperChar(name[1])>> \o Tail(name) ELSE name

\* EntityExtractor.extract_from_text: entity_names
EntityExtractFromText(text) ==
    LET names == EntityMatches(text)
    IN  SortedList({NormalizeEntity(names[k]) :
                       k \in {j \in 1..Len(names) : IsValidEntity(names[j])}})

\* The pieces the texts are written in: "class ", "uDTO", "User", "Account",
\* " model", a newline, "# ", ": represents" and "1dto".
EntityPieces ==
    { <<"c", "l", "a", "s", "s", " ">>, <<"u", "D", "T", "O">>, <<"U", "s", "e", "r">>,
      <<"A", "c", "c", "o", "u", "n", "t">>, <<" ", "m", "o", "d", "e", "l">>, <<"\n">>, <<"#", " ">>,
      <<":", " ", "r", "e", "p", "r", "e", "s", "e", "n", "t", "s">>, <<"1", "d", "t", "o">> }

EntityInit ==
    /\ nphase = "text"
    /\ n_pieces = 0
    /\ n_text = <<>>
    /\ n_names = <<>>

\* The text grows by a piece.
WritePiece ==
    /\ nphase = "text"
    /\ n_pieces < MaxPieces
    /\ \E piece \in EntityPieces : n_text' = n_text \o piece
    /\ n_pieces' = n_pieces + 1
    /\ UNCHANGED <<nphase, n_names>>
    /\ UNCHANGED <<chunkVars, hybridVars, crossRefVars, ingestVars, markdownVars, extractVars, apiVars, createVars, sheetVars, groupVars>>

\* EntityExtractor().extract_from_text(text)
EntityExtract ==
    /\ nphase = "text"
    /\ n_names' = EntityExtractFromText(n_text)
    /\ nphase' = "extracted"
    /\ UNCHANGED <<n_pieces, n_text>>
    /\ UNCHANGED <<chunkVars, hybridVars, crossRefVars, ingestVars, markdownVars, extractVars, apiVars, createVars, sheetVars, groupVars>>

EntityNext == WritePiece \/ EntityExtract

----------------------------------------------------------------------------
(* Claims about EntityExtractor *)

\* C22: every name of the entity_names extract_from_text returns starts with
\* an upper-case letter, has at least 2 characters, is alphanumeric, is not,
\* whatever its case, in the list of excluded words, and is not an all
\* upper-case token of more than 3 characters.
C22_EntityNamesWellFormed ==
    nphase = "extracted" =>
        \A name \in Range(n_names) :
            /\ name[1] \in UpperSet
            /\ Len(name) >= 2
            /\ IsAlnum(name)
            /\ StrLower(name) \notin EXCLUDED_WORDS
            /\ ~(IsUpper(name) /\ Len(name) > 3)

----------------------------------------------------------------------------
(* Chunk.create (src/core/chunkers/base.py): the chunk_id                 *)

\* Chunk.create is called at most this many times.
MaxCreated == 3

\* chunk_id keeps this many digits of uuid4().hex
KeptHexDigits == 12

\* uuid4().hex for three of the values uuid4() can return: the second
\* differs from the first in its last digit, the third in its first.
Uuid4Hex ==
    { <<"0", "0", "0", "0", "0", "0", "0", "0", "0", "0", "0", "0", "4", "0", "0", "0", "8", "0", "0", "0", "0", "0", "0", "0", "0", "0", "0", "0", "0", "0", "0", "0">>,
      <<"0", "0", "0", "0", "0", "0", "0", "0", "0", "0", "0", "0", "4", "0", "0", "0", "8", "0", "0", "0", "0", "0", "0", "0", "0", "0", "0", "0", "0", "0", "0", "1">>,
      <<"1", "0", "0", "0", "0", "0", "0", "0", "0", "0", "0", "0", "4", "0", "0", "0", "8", "0", "0", "0", "0", "0", "0", "0", "0", "0", "0", "0", "0", "0", "0", "0">> }

\* The contents chunks are created with.
CreatedContents == { <<"a">>, <<"b">>, <<"c">> }

\* Chunk.create(document_id, content, content_type) when uuid4().hex is `hex`
ChunkCreateWithId(hex, document_id, content, content_type) ==
    [chunk_id |-> <<"c", "h", "u", "n", "k", "_">> \o SubSeq(hex, 1, KeptHexDigits),
     document_id |-> document_id,
     content |-> content,
     content_type |-> content_type]

CreateInit == created_chunks = <<>>

\* One call of Chunk.create, as chunk() makes them one after the other;
\* uuid4() returns any of its values.
CreateChunk ==
    /\ Len(created_chunks) < MaxCreated
    /\ \E hex \in Uuid4Hex, content \in CreatedContents :
          created_chunks' = Append(created_chunks, ChunkCreateWithId(hex, "doc_123", content, TEXT))
    /\ UNCHANGED <<chunkVars, hybridVars, crossRefVars, ingestVars, markdownVars, extractVars, apiVars, entityVars, sheetVars, groupVars>>

CreateNext == CreateChunk

----------------------------------------------------------------------------
(* Claims about Chunk.create *)

\* C23: the chunks created_chunks by Chunk.create, in one call of chunk() or over
\* any sequence of calls, have pairwise distinct chunk_id values.
C23_ChunkIdsDistinct ==
    \A i, j \in 1..Len(created_chunks) : i # j => created_chunks[i].chunk_id # created_chunks[j].chunk_id

----------------------------------------------------------------------------
(* Claims about the heading hierarchy of the parsers *)

\* The reference algorithm: a stack of (level, text); a heading of level L
\* pops all entries with level >= L, then is pushed.
ReferencePush(stack, level, text) ==
    Append(SelectSeq(stack, LAMBDA entry : entry.level < level),
           [level |-> level, text |-> text])

RECURSIVE ReferenceStacks(_, _)
\* The stacks of the reference algorithm after each heading of the lines.
ReferenceStacks(lines, stack) ==
    IF lines = <<>> THEN <<>>
    ELSE LET heading_match == HeadingMatch(Head(lines))
             pushed == ReferencePush(stack, heading_match.level, heading_match.heading_text)
         IN  IF heading_match.matched
             THEN <<pushed>> \o ReferenceStacks(Tail(lines), pushed)
             ELSE ReferenceStacks(Tail(lines), stack)

\* The texts of a stack, bottom to top.
StackTexts(stack) == [k \in 1..Len(stack) |-> stack[k].text]

\* How many HEADING sections there are among the first i sections.
HeadingsUpTo(i) ==
    Cardinality({k \in 1..i : md_sections[k].content_type = HEADING})

\* C24: for any sequence of headings, also one that skips levels or starts
\* below level 1, the section_hierarchy of each heading and of the content
\* that follows it is the texts, bottom to top, of the stack of the reference
\* algorithm: on a heading of level L pop all entries with level >= L, then
\* push (L, text).
C24_HierarchyIsReferenceStack ==
    mphase = "chunked" =>
        LET stacks == ReferenceStacks(SplitLines(md_text), <<>>)
        IN  \A i \in 1..Len(md_sections) :
                /\ HeadingsUpTo(i) <= Len(stacks)
                /\ md_sections[i].section_hierarchy =
                      IF HeadingsUpTo(i) = 0 THEN <<>>
                      ELSE StackTexts(stacks[HeadingsUpTo(i)])

----------------------------------------------------------------------------
(* ExcelParser (src/core/parsers/excel_parser.py)                          *)
(* A cell of a sheet is a str or None.                                     *)

\* The rows of a sheet have at most this many cells.
MaxWidth == 3

\* A sheet has at most this many rows after its first.
MaxDataRows == 1

\* The cell that is None
None == <<"None">>

\* ExcelParser.SCHEMA_COLUMN_PATTERNS
SCHEMA_COLUMN_PATTERNS ==
    { <<"c", "o", "l", "u", "m", "n">>,
      <<"f", "i", "e", "l", "d">>,
      <<"n", "a", "m", "e">>,
      <<"a", "t", "t", "r", "i", "b", "u", "t", "e">>,
      <<"t", "y", "p", "e">>,
      <<"d", "a", "t", "a", "t", "y", "p", "e">>,
      <<"d", "a", "t", "a", "_", "t", "y", "p", "e">>,
      <<"d", "e", "s", "c", "r", "i", "p", "t", "i", "o", "n">>,
      <<"d", "e", "s", "c">>,
      <<"c", "o", "m", "m", "e", "n", "t">>,
      <<"n", "o", "t", "e">>,
      <<"n", "u", "l", "l", "a", "b", "l", "e">>,
      <<"n", "u", "l", "l">>,
      <<"r", "e", "q", "u", "i", "r", "e", "d">>,
      <<"o", "p", "t", "i", "o", "n", "a", "l">>,
      <<"d", "e", "f", "a", "u", "l", "t">>,
      <<"d", "e", "f", "a", "u", "l", "t", "_", "v", "a", "l", "u", "e">>,
      <<"c", "o", "n", "s", "t", "r", "a", "i", "n", "t">>,
      <<"k", "e", "y">>,
      <<"p", "k">>,
      <<"f", "k">>,
      <<"p", "r", "i", "m", "a", "r", "y">>,
      <<"f", "o", "r", "e", "i", "g", "n">>,
      <<"l", "e", "n", "g", "t", "h">>,
      <<"s", "i", "z", "e">>,
      <<"p", "r", "e", "c", "i", "s", "i", "o", "n">>,
      <<"s", "c", "a", "l", "e">> }

\* any(cell is not None for cell in row)
AnyCell(row) == \E i \in 1..Len(row) : row[i] # None

\* `if cell`: a cell that is neither None nor the empty str
IsTrue(cell) == cell # None /\ cell # <<>>

\* str(i) for an index of a cell
IndexStr(i) == <<CodePointOrder[10 + i]>>

\* `[str(cell) if cell else f"col_{i}" for i, cell in enumerate(row)]`
HeadersOf(row) ==
    [k \in 1..Len(row) |-> IF IsTrue(row[k]) THEN row[k] ELSE <<"c", "o", "l", "_">> \o IndexStr(k - 1)]

\* The index, from 1, of the first row that is not empty; 0 when there is none.
HeaderRowOf(rows) ==
    LET full == {k \in 1..Len(rows) : AnyCell(rows[k])}
    IN  IF full = {} THEN 0 ELSE CHOOSE k \in full : \A j \in full : k <= j

\* The number of header cells that hold a pattern.
CountMatchingHeaders(headers) ==
    Cardinality({k \in 1..Len(headers) :
                    \E pattern \in SCHEMA_COLUMN_PATTERNS : Contains(StrLower(headers[k]), pattern)})

\* `sum(1 for h in header_lower for pattern in self.SCHEMA_COLUMN_PATTERNS
\* if pattern in h)`
CountPatternMatches(headers) ==
    Cardinality({<<k, pattern>> \in (1..Len(headers)) \X SCHEMA_COLUMN_PATTERNS :
                    Contains(StrLower(headers[k]), pattern)})

\* ExcelParser._is_schema_table
IsSchemaTable(headers) == CountPatternMatches(headers) >= 2

RECURSIVE Replace(_, _, _)
\* str.replace(old, new) for a one-character old
Replace(s, old, new) ==
    IF s = <<>> THEN <<>>
    ELSE (IF Head(s) = old THEN new ELSE <<Head(s)>>) \o Replace(Tail(s), old, new)

\* "| " + " | ".join(cells) + " |"
TableLine(cells) == <<"|", " ">> \o Join(<<" ", "|", " ">>, cells) \o <<" ", "|">>

\* The line of a data row of _rows_to_markdown.
DataLine(row, width) ==
    LET kept == SubSeq(row, 1, IF Len(row) < width THEN Len(row) ELSE width)
    IN  TableLine([k \in 1..width |->
            IF k <= Len(kept) /\ IsTrue(kept[k])
            THEN Replace(Replace(kept[k], "|", <<"\\", "|">>), "\n", <<" ">>)
            ELSE <<>>])

\* ExcelParser._rows_to_markdown
RowsToMarkdown(headers, data_rows) ==
    LET full == SelectSeq(data_rows, AnyCell)
    IN  Join(<<"\n">>,
             <<TableLine(headers), TableLine([k \in 1..Len(headers) |-> <<"-", "-", "-">>])>>
             \o [k \in 1..Len(full) |-> DataLine(full[k], Len(headers))])

\* any(p in header_lower for p in words)
HoldsAny(header, words) == \E p \in words : Contains(StrLower(header), p)

RECURSIVE DescriptionParts(_, _, _)
\* The `for i, (header, cell) in enumerate(zip(headers, row))` loop of
\* _generate_schema_description.
DescriptionParts(headers, row, parts) ==
    IF headers = <<>> \/ row = <<>> THEN parts
    ELSE LET header == Head(headers)
             cell == Head(row)
             next == IF ~IsTrue(cell) THEN parts
                     ELSE IF HoldsAny(header, { <<"n", "a", "m", "e">>, <<"c", "o", "l", "u", "m", "n">>, <<"f", "i", "e", "l", "d">> })
                          THEN << <<"*", "*">> \o cell \o <<"*", "*">> >> \o parts
                     ELSE IF HoldsAny(header, { <<"t", "y", "p", "e">>, <<"d", "a", "t", "a", "t", "y", "p", "e">> })
                          THEN Append(parts, <<"(">> \o cell \o <<")">>)
                     ELSE IF HoldsAny(header, { <<"d", "e", "s", "c">>, <<"c", "o", "m", "m", "e", "n", "t">>, <<"n", "o", "t", "e">> })
                          THEN Append(parts, <<"-", " ">> \o cell)
                     ELSE parts
         IN  DescriptionParts(Tail(headers), Tail(row), next)

\* ExcelParser._generate_schema_description
GenerateSchemaDescription(headers, data_rows) ==
    LET first == SelectSeq(Take(data_rows, 20), AnyCell)
        parts == [k \in 1..Len(first) |-> DescriptionParts(headers, first[k], <<>>)]
        said == SelectSeq(parts, LAMBDA p : p # <<>>)
    IN  Join(<<"\n">>, << <<"T", "a", "b", "l", "e", " ", "S", "c", "h", "e", "m", "a", ":">> >> \o [k \in 1..Len(said) |-> Join(<<" ">>, said[k])])

\* ExcelParser._parse_sheet(ws, sheet_name), `rows` being list(ws.iter_rows(values_only=True))
ParseSheet(rows, sheet_name) ==
    LET header_row == HeaderRowOf(rows)
        headers == HeadersOf(rows[header_row])
        data_rows == SubSeq(rows, header_row + 1, Len(rows))
        is_schema == IsSchemaTable(headers)
        section == [content |-> RowsToMarkdown(headers, data_rows),
                    content_type |-> TABLE,
                    heading_text |-> sheet_name,
                    section_hierarchy |-> <<sheet_name>>,
                    metadata |-> [sheet_name |-> sheet_name,
                                  is_schema_table |-> is_schema,
                                  columns |-> headers,
                                  row_count |-> Len(rows) - header_row]]
        description == [content |-> GenerateSchemaDescription(headers, data_rows),
                        content_type |-> TEXT,
                        heading_text |-> sheet_name \o <<" ", "(", "S", "c", "h", "e", "m", "a", " ", "D", "e", "s", "c", "r", "i", "p", "t", "i", "o", "n", ")">>,
                        section_hierarchy |-> <<sheet_name>>,
                        metadata |-> [is_generated_description |-> TRUE]]
    IN  IF rows = <<>> \/ header_row = 0 THEN <<>>
        ELSE IF is_schema THEN <<section, description>>
        ELSE <<section>>

\* The cells of the sheets: None, "Description", "Column Name", "Price", "Type".
SheetCells ==
    { None, <<"D", "e", "s", "c", "r", "i", "p", "t", "i", "o", "n">>,
      <<"C", "o", "l", "u", "m", "n", " ", "N", "a", "m", "e">>, <<"P", "r", "i", "c", "e">>, <<"T", "y", "p", "e">> }

\* The name of the sheet
SheetName == <<"u", "s", "e", "r", "s">>

SheetInit ==
    /\ sheet_phase = "sheet"
    /\ sheet_rows = <<>>
    /\ sheet_sections = <<>>

\* The first row of the sheet gets a cell.
AddFirstRowCell ==
    /\ sheet_phase = "sheet"
    /\ Len(sheet_rows) <= 1
    /\ \E cell \in SheetCells :
          sheet_rows' = IF sheet_rows = <<>> THEN << <<cell>> >>
                        ELSE << Append(sheet_rows[1], cell) >>
    /\ Len(sheet_rows'[1]) <= MaxWidth
    /\ UNCHANGED <<sheet_phase, sheet_sections>>
    /\ UNCHANGED <<chunkVars, hybridVars, crossRefVars, ingestVars, markdownVars, extractVars, apiVars, entityVars, createVars, groupVars>>

\* The sheet gets a row under its first.
AddRow ==
    /\ sheet_phase = "sheet"
    /\ sheet_rows # <<>>
    /\ Len(sheet_rows) <= MaxDataRows
    /\ \E row \in [1..Len(sheet_rows[1]) -> {None, <<"i", "d">>}] :
          sheet_rows' = Append(sheet_rows, row)
    /\ UNCHANGED <<sheet_phase, sheet_sections>>
    /\ UNCHANGED <<chunkVars, hybridVars, crossRefVars, ingestVars, markdownVars, extractVars, apiVars, entityVars, createVars, groupVars>>

\* ExcelParser()._parse_sheet(ws, sheet_name)
ParseSheetCall ==
    /\ sheet_phase = "sheet"
    /\ sheet_sections' = ParseSheet(sheet_rows, SheetName)
    /\ sheet_phase' = "parsed"
    /\ UNCHANGED sheet_rows
    /\ UNCHANGED <<chunkVars, hybridVars, crossRefVars, ingestVars, markdownVars, extractVars, apiVars, entityVars, createVars, groupVars>>

SheetNext == AddFirstRowCell \/ AddRow \/ ParseSheetCall

----------------------------------------------------------------------------
(* Claims about ExcelParser *)

\* C25: a sheet is classified as a schema table if and only if at least 2 of
\* its header cells match the vocabulary of schema keywords, a header cell
\* counting once however many keywords it holds; and only then does
\* _parse_sheet emit the description section after the table.
C25_SchemaTableIffTwoHeaders ==
    (sheet_phase = "parsed" /\ sheet_sections # <<>>) =>
        LET headers == sheet_sections[1].metadata.columns
        IN  /\ sheet_sections[1].metadata.is_schema_table
                 <=> (CountMatchingHeaders(headers) >= 2)
            /\ (Len(sheet_sections) = 2) <=> (CountMatchingHeaders(headers) >= 2)

----------------------------------------------------------------------------
(* Claims about the sentences of SemanticChunker *)

\* The terminal punctuation of SENTENCE_ENDINGS, and its paragraph break.
TerminalPunctuation == {ending[1] : ending \in {e \in SENTENCE_ENDINGS : Len(e) = 1}}

ParagraphBreak == <<"\n", "\n">>

\* C26: _split_sentences ends a sentence at every terminal punctuation
\* character and at every blank-line paragraph break: no sentence goes on
\* after a terminal punctuation character, none holds a blank line, and two
\* paragraphs without terminal punctuation that a blank line separates are
\* two sentences.
C26_SentencesEndAtBreaks ==
    \A i \in 1..Len(sections) :
        LET text == sections[i].content
            sentences == SplitSentences(text)
        IN  /\ \A k \in 1..Len(sentences) :
                  /\ \A j \in 1..(Len(sentences[k]) - 1) :
                        sentences[k][j] \notin TerminalPunctuation
                  /\ ~Contains(sentences[k], ParagraphBreak)
            /\ \A j \in 2..(Len(text) - 2) :
                  ( /\ SubSeq(text, j, j + 1) = ParagraphBreak
                    /\ \A x \in 1..Len(text) : text[x] \notin TerminalPunctuation
                    /\ Strip(SubSeq(text, 1, j - 1)) # <<>>
                    /\ Strip(SubSeq(text, j + 2, Len(text))) # <<>>
                    /\ ~Contains(Strip(SubSeq(text, 1, j - 1)), ParagraphBreak)
                    /\ ~Contains(Strip(SubSeq(text, j + 2, Len(text))), ParagraphBreak) )
                  => Len(sentences) = 2

----------------------------------------------------------------------------
(* Claims about the hard split of an oversized sentence *)

\* The words of a piece of _split_long_text, and their summed token counts.
WordsOf(piece) == SplitWords(piece, <<>>, <<>>)

WordTokens(piece) == SumSeq([w \in 1..Len(WordsOf(piece)) |-> CountTokens(WordsOf(piece)[w])])

\* The sentences of the document that by themselves exceed chunk_size: the
\* ones _chunk_section hands to _split_long_text.
OversizedSentences ==
    UNION {{sentence \in Range(SplitSentences(sections[i].content)) :
                CountTokens(sentence) > chunker.chunk_size} : i \in 1..Len(sections)}

\* C30: a sentence that by itself exceeds chunk_size is split by greedy word
\* packing: the pieces hold, in order, exactly the whitespace-separated words
\* of the sentence, no piece is empty, the summed token counts of the words
\* of a piece stay within chunk_size unless the piece is one word, and a
\* piece ends only where the next word would no longer fit.
C30_GreedyWordPacking ==
    phase = "semantic" =>
        \A sentence \in OversizedSentences :
            LET pieces == SplitLongText(chunker, sentence)
            IN  /\ Concat([p \in 1..Len(pieces) |-> WordsOf(pieces[p])]) = WordsOf(sentence)
                /\ \A p \in 1..Len(pieces) :
                      /\ pieces[p] # <<>>
                      /\ \/ Len(WordsOf(pieces[p])) = 1
                         \/ WordTokens(pieces[p]) <= chunker.chunk_size
                /\ \A p \in 1..(Len(pieces) - 1) :
                      WordTokens(pieces[p]) + CountTokens(Head(WordsOf(pieces[p + 1])))
                          > chunker.chunk_size

\* An oversized sentence of several words was split into several pieces, and
\* the pieces are the contents of chunks of the document.
C30_SentenceWasSplit ==
    /\ phase = "semantic"
    /\ \E sentence \in OversizedSentences :
          LET pieces == SplitLongText(chunker, sentence)
          IN  /\ Len(pieces) >= 2
              /\ \A p \in 1..Len(pieces) :
                    \E c \in 1..Len(chunks) : chunks[c].content = pieces[p]

\* An oversized sentence has a piece of several words.
C30_PieceOfSeveralWords ==
    /\ phase = "semantic"
    /\ \E sentence \in OversizedSentences :
          \E piece \in Range(SplitLongText(chunker, sentence)) : Len(WordsOf(piece)) >= 2

----------------------------------------------------------------------------
(* StructureChunker._chunk_section_group on one group of sections         *)

\* A group has at most this many sections.
MaxParts == 3

\* The contents of the sections of a group: of 0, 1 and 2 tokens.
PartContents == { <<"a">>, <<"b", "c", "d">>, <<"b", "c", "d", "\n", "b", "c", "d">> }

\* The content types of the sections of a group (headings never enter one).
PartTypes == {TEXT, CODE_BLOCK, TABLE}

GroupInit ==
    /\ group_phase = "input"
    /\ group_sections = <<>>
    /\ group_chunker = NoChunker
    /\ group_chunks = <<>>

\* _group_sections_by_hierarchy adds a section to the group: all sections of
\* a group have the hierarchy of the first.
AddPart ==
    /\ group_phase = "input"
    /\ Len(group_sections) < MaxParts
    /\ \E content \in PartContents, content_type \in PartTypes,
          hierarchy \in {<<>>, <<HeadingT>>} :
          /\ group_sections # <<>> => hierarchy = group_sections[1].section_hierarchy
          /\ group_sections' = Append(group_sections,
                                      ParsedSection(content, content_type, hierarchy))
    /\ UNCHANGED <<group_phase, group_chunker, group_chunks>>
    /\ UNCHANGED <<chunkVars, hybridVars, crossRefVars, ingestVars, markdownVars, extractVars, apiVars, entityVars, createVars, sheetVars>>

\* StructureChunker(chunk_size, include_heading_in_chunk)
\*     ._chunk_section_group(sections, document_id, hierarchy)
ChunkGroup ==
    /\ group_phase = "input"
    /\ group_sections # <<>>
    /\ \E size \in ChunkSizes, include_heading \in BOOLEAN :
          LET self == NewStructureChunker(size, include_heading)
          IN /\ group_chunker' = self
             /\ group_chunks' = ChunkSectionGroup(self, group_sections,
                                                  group_sections[1].section_hierarchy)
    /\ group_phase' = "chunked"
    /\ UNCHANGED group_sections
    /\ UNCHANGED <<chunkVars, hybridVars, crossRefVars, ingestVars, markdownVars, extractVars, apiVars, entityVars, createVars, sheetVars>>

GroupNext == AddPart \/ ChunkGroup

----------------------------------------------------------------------------
(* Claims about the atomic parts of a group *)

\* The token counts of the parts of the group, summed.
GroupTokens == SumSeq([i \in 1..Len(group_sections) |-> CountTokens(group_sections[i].content)])

\* The chunk that is part i of the group by itself.
OwnChunk(i) ==
    ChunkCreate(WithHeading(group_chunker, group_sections[i].section_hierarchy,
                            group_sections[i].content),
                group_sections[i].content_type,
                group_sections[i].section_hierarchy)

\* C27: when the combined tokens of a group exceed chunk_size, every
\* CODE_BLOCK or TABLE part of the group is emitted as its own chunk: a chunk
\* of the group has exactly the content of the part (under the heading
\* prefix when it is configured), neither split nor merged with neighbouring
\* parts, even when the part alone exceeds chunk_size, and the chunk has the
\* content_type of the part.
C27_AtomicPartsAreOwnChunks ==
    (group_phase = "chunked" /\ GroupTokens > group_chunker.chunk_size) =>
        \A i \in 1..Len(group_sections) :
            group_sections[i].content_type \in {CODE_BLOCK, TABLE} =>
                \E c \in 1..Len(group_chunks) : group_chunks[c] = OwnChunk(i)

\* What the code does for the parts that alone exceed chunk_size: those are
\* their own chunks.
C27_OversizedAtomicPartsAreOwnChunks ==
    (group_phase = "chunked" /\ GroupTokens > group_chunker.chunk_size) =>
        \A i \in 1..Len(group_sections) :
            ( /\ group_sections[i].content_type \in {CODE_BLOCK, TABLE}
              /\ CountTokens(group_sections[i].content) > group_chunker.chunk_size ) =>
                \E c \in 1..Len(group_chunks) : group_chunks[c] = OwnChunk(i)

----------------------------------------------------------------------------
(* Claims about the secondary searches of CrossRefRetriever *)

\* The doc_types whose hits have cross-references, and the doc_type looked
\* for from each.
Complementary(doc_type) ==
    IF doc_type = "api_spec" THEN "table_schema"
    ELSE IF doc_type = "table_schema" THEN "api_spec" ELSE ""

\* The secondary searches issued for primary hit i.
SearchesFor(i) == {s \in 1..Len(searches) : searches[s].hit = i}

\* C28: once retrieve has returned, each primary hit whose doc_type is
\* api_spec or table_schema had exactly one secondary search of the index,
\* filtered to the complementary doc_type and made of the entity and table
\* names of the hit; the primary hits of any other doc_type had none.
C28_OneSecondarySearchPerTypedHit ==
    xphase = "returned" =>
        \A i \in 1..Len(primary_results) :
            LET metadata == primary_results[i].metadata
            IN IF metadata.doc_type \in {"api_spec", "table_schema"}
               THEN /\ Cardinality(SearchesFor(i)) = 1
                    /\ \A s \in SearchesFor(i) :
                          /\ searches[s].doc_type = Complementary(metadata.doc_type)
                          /\ Range(searches[s].entities)
                                = Range(metadata.entity_names) \cup Range(metadata.table_names)
               ELSE SearchesFor(i) = {}

\* What the code does: the hits of the two doc_types that name an entity or
\* a table had exactly one such search, all other hits none.
C28_OneSecondarySearchPerNamedHit ==
    xphase = "returned" =>
        \A i \in 1..Len(primary_results) :
            LET metadata == primary_results[i].metadata
            IN IF /\ metadata.doc_type \in {"api_spec", "table_schema"}
                  /\ metadata.entity_names \o metadata.table_names # <<>>
               THEN /\ Cardinality(SearchesFor(i)) = 1
                    /\ \A s \in SearchesFor(i) :
                          /\ searches[s].doc_type = Complementary(metadata.doc_type)
                          /\ Range(searches[s].entities)
                                = Range(metadata.entity_names) \cup Range(metadata.table_names)
               ELSE SearchesFor(i) = {}

----------------------------------------------------------------------------
(* Claims about HybridRetriever.retrieve with its empty sparse list *)

\* The first n results of the dense list as the fusion returns them: the
\* result at 0-based rank r with the score dense_weight / (rrf_k + r + 1),
\* in the units of ScoreScale, and the source 'hybrid'.
DensePrefixFused(n) ==
    [i \in 1..n |->
        RetrievalResult(dense_results[i].chunk_id, dense_results[i].document_id,
                        (dense_weight * ScoreScale) \div (rrf_k + (i - 1) + 1),
                        dense_results[i].metadata, "hybrid")]

\* C29: the empty sparse list is a legal input of the fusion: retrieve, whose
\* sparse list is empty and whose dense list holds pairwise distinct
\* chunk_ids, returns exactly the first top_k dense results (all of them when
\* there are fewer) in their dense order, each with the score
\* dense_weight / (rrf_k + rank + 1) and the source 'hybrid', and no
\* chunk_id twice.
C29_EmptySparseGivesDensePrefix ==
    ( /\ hphase = "retrieved"
      /\ sparse_results = <<>>
      /\ Len(dense_results) = Cardinality(IdsOf(dense_results)) ) =>
        /\ fused = DensePrefixFused(IF h_top_k < Len(dense_results)
                                    THEN h_top_k ELSE Len(dense_results))
        /\ Len(fused) = Cardinality(IdsOf(fused))

\* retrieve, with an empty sparse list, cut a dense list of more than
\* top_k >= 2 distinct chunks.
C29_Witness ==
    /\ hphase = "retrieved"
    /\ sparse_results = <<>>
    /\ h_top_k >= 2
    /\ Len(dense_results) > h_top_k
    /\ Len(dense_results) = Cardinality(IdsOf(dense_results))
    /\ Len(fused) = h_top_k

----------------------------------------------------------------------------
(* The specifications: one per component, the other components left idle *)

Init ==
    ChunkInit /\ HybridInit /\ CrossRefInit /\ IngestInit /\ MarkdownInit /\ ExtractInit
    /\ ApiInit
    /\ EntityInit
    /\ CreateInit
    /\ SheetInit
    /\ GroupInit

SpecChunk == Init /\ [][ChunkNext]_vars

SpecHybrid == Init /\ [][HybridNext]_vars

SpecCrossRef == Init /\ [][CrossRefNext]_vars

SpecIngest == Init /\ [][IngestNext]_vars

SpecMarkdown == Init /\ [][MarkdownNext]_vars

SpecExtract == Init /\ [][ExtractNext]_vars

SpecApi == Init /\ [][ApiNext]_vars

SpecEntity == Init /\ [][EntityNext]_vars

SpecCreate == Init /\ [][CreateNext]_vars

SpecSheet == Init /\ [][SheetNext]_vars

SpecGroup == Init /\ [][GroupNext]_vars

====
